---- MODULE Spec2Model ----
(***************************************************************************)
(* Model of the remote file-store access layer of euphrosyne-tools-api:    *)
(* clients/azure/data.py (path validation, SAS issuing, the range-cached   *)
(* file stream, the recursive listing) and the endpoints of api/data.py    *)
(* that call it.                                                           *)
(*                                                                         *)
(* Strings are sequences of chunks.  A chunk is an atomic run of           *)
(* characters ("hello", "runs", "/", ".").  The chunk alphabet is chosen   *)
(* so that a character string has one chunk sequence only; slash, pipe,    *)
(* dot and "x" are the chunks of a single character.                        *)
(***************************************************************************)
EXTENDS Integers, Sequences, FiniteSets, TLC

VARIABLES
    prefix,     \* AZURE_STORAGE_PROJECTS_LOCATION_PREFIX, read by _get_projects_path
    utcnow,     \* what the next two calls of datetime.utcnow() return, in seconds
    req,        \* the request or call handled last
    resp,       \* its response (status, body) or the call's outcome
    signed,     \* the calls made to FileSharedAccessSignature.generate_file by it
    share,      \* the file share: directory path -> provider listing of that directory
    walk,       \* the listing call in progress: generator frames, yielded entries
    trace,      \* what the listing call did, in order: provider calls and yields
    done,       \* the directory request answered last: its response, the share before it
    stream,     \* AzureFileShareFile objects: _offset, _content_length, per stream
    cache,      \* the lru_cache of AzureFileShareFile._read_chunk (oldest first)
    recency,    \* the keys _read_chunk returned for, ordered by their last call
    fetches,    \* ranged fetches (get_file_to_bytes) that returned, counted by key
    closed,     \* streams the caller has discarded
    ops,        \* operations performed on the streams so far
    remote,     \* the length in bytes of the remote file of streams 1 and 2
    last,       \* the stream operation performed last and what it returned
    before,     \* the stream operations performed before the last one, in order
    vm,         \* the deployments of the resource group and the deploy_vm call made last
    procs       \* the init_project calls in progress at the same time, per caller

pathVars == <<prefix, utcnow, req, resp, signed>>
walkVars == <<share, walk, trace, done>>
streamVars == <<stream, cache, recency, fetches, closed, ops, remote, last, before>>
taskVars == <<vm, procs>>
vars == <<prefix, utcnow, req, resp, signed, share, walk, trace, done,
         stream, cache, recency, fetches, closed, ops, remote, last, before,
         vm, procs>>

\* no deploy_vm call made, no init_project call in progress
NoVM == [op |-> "none"]
IdleTasks == vm = NoVM /\ procs = <<>>

-----------------------------------------------------------------------------
(* Strings *)

SLASH == "/"

\* chunks standing for one character
SingleChar == {"/", "|", ".", "x"}

\* chunks made only of characters of the class [\w\- ]
WordChunk == {"projects", "start", "data", "v1", "x", "hello", "other", "hel", "lo",
              "world", "wor", "ld", "runs", "not", "documents", "raw_data",
              "processed_data", "HDF5", "other_data", "f", "txt", "my project",
              "my-project"}

RECURSIVE Join(_)
\* "/".join(segs)
Join(segs) ==
    IF segs = <<>> THEN <<>>
    ELSE IF Len(segs) = 1 THEN segs[1]
    ELSE segs[1] \o <<SLASH>> \o Join(Tail(segs))

RECURSIVE Split(_)
\* s.split("/")
Split(s) ==
    IF \A i \in 1..Len(s) : s[i] # SLASH THEN <<s>>
    ELSE LET k == CHOOSE i \in 1..Len(s) :
                      s[i] = SLASH /\ \A j \in 1..(i - 1) : s[j] # SLASH
         IN  <<SubSeq(s, 1, k - 1)>> \o Split(SubSeq(s, k + 1, Len(s)))

StartsWith(s, p) == Len(s) >= Len(p) /\ SubSeq(s, 1, Len(p)) = p

\* positions at which pat occurs in s
Occurrences(s, pat) ==
    {i \in 1..(Len(s) - Len(pat) + 1) : SubSeq(s, i, i + Len(pat) - 1) = pat}

\* s.replace(pat, "", 1): the first occurrence of pat is removed
ReplaceFirst(s, pat) ==
    IF pat = <<>> \/ Occurrences(s, pat) = {} THEN s
    ELSE LET i == CHOOSE k \in Occurrences(s, pat) : \A j \in Occurrences(s, pat) : k <= j
         IN  SubSeq(s, 1, i - 1) \o SubSeq(s, i + Len(pat), Len(s))

RECURSIVE SelectSegs(_)
\* the segments pathlib keeps: empty segments and "." are dropped
SelectSegs(segs) ==
    IF segs = <<>> THEN <<>>
    ELSE IF Head(segs) = <<>> \/ Head(segs) = <<".">> THEN SelectSegs(Tail(segs))
    ELSE <<Head(segs)>> \o SelectSegs(Tail(segs))

LeadingSlashes(s) ==
    IF s = <<>> \/ s[1] # SLASH THEN 0
    ELSE IF \A i \in 1..Len(s) : s[i] = SLASH THEN Len(s)
    ELSE (CHOOSE i \in 1..Len(s) : s[i] # SLASH /\ \A j \in 1..(i - 1) : s[j] = SLASH) - 1

\* pathlib.PurePosixPath(s).parts: the root ("/" or "//") first when s is absolute
PathParts(s) ==
    LET n == LeadingSlashes(s)
        root == IF n = 0 THEN <<>>
                ELSE IF n = 2 THEN << <<SLASH, SLASH>> >> ELSE << <<SLASH>> >>
    IN  root \o SelectSegs(Split(s))

\* str(PurePosixPath) of the parts
PartsStr(parts) ==
    IF parts = <<>> THEN <<".">>
    ELSE IF Head(parts) \in {<<SLASH>>, <<SLASH, SLASH>>}
         THEN Head(parts) \o Join(Tail(parts))
    ELSE Join(parts)

\* str(pathlib.Path(s)): the normalised path the endpoints hand to the validators
PathStr(s) == PartsStr(PathParts(s))

\* str(path.parents[0])
PathParent(s) ==
    LET parts == PathParts(s)
    IN  IF parts = <<>> \/ (Len(parts) = 1 /\ Head(parts) \in {<<SLASH>>, <<SLASH, SLASH>>})
        THEN PartsStr(parts)
        ELSE PartsStr(SubSeq(parts, 1, Len(parts) - 1))

\* path.name
PathName(s) ==
    LET parts == PathParts(s)
    IN  IF parts = <<>> \/ (Len(parts) = 1 /\ Head(parts) \in {<<SLASH>>, <<SLASH, SLASH>>})
        THEN <<>>
        ELSE parts[Len(parts)]

\* os.path.join(a, b, ...)
RECURSIVE os_path_join(_)
os_path_join(comps) ==
    IF Len(comps) = 1 THEN comps[1]
    ELSE LET a == comps[1]
             b == comps[2]
             ab == IF b # <<>> /\ b[1] = SLASH THEN b
                   ELSE IF a = <<>> \/ a[Len(a)] = SLASH THEN a \o b
                   ELSE a \o <<SLASH>> \o b
         IN  os_path_join(<<ab>> \o SubSeq(comps, 3, Len(comps)))

-----------------------------------------------------------------------------
(* Users (auth.User) *)

\* User.has_project(project_name): the user has a project of exactly that name
has_project(user, project_name) == project_name \in user.projects

admin == [id |-> 1, projects |-> {}, is_admin |-> TRUE]
alice == [id |-> 2, projects |-> {<<"hello">>}, is_admin |-> FALSE]
bob == [id |-> 3, projects |-> {<<"other">>}, is_admin |-> FALSE]
Users == {admin, alice, bob}

\* the dependency of the project-scoped endpoints
verify_project_membership(project_name, user) ==
    user.is_admin \/ has_project(user, project_name)

-----------------------------------------------------------------------------
(* Path validation *)

RunDataTypeType == {<<"processed_data">>, <<"raw_data">>, <<"HDF5">>}

_get_projects_path == prefix

Ok == [raised |-> "none", message |-> <<>>]
IncorrectDataFilePath(message) == [raised |-> "IncorrectDataFilePath", message |-> message]

\* one chunk of the pattern that the prefix becomes once it is written into the
\* regular expression: "." matches any one character, every other chunk itself
ReChunkMatches(p, c) == IF p = "." THEN c \in SingleChar ELSE p = c

\* ^{_get_projects_path()} at the start of s
RePrefixMatches(s) ==
    LET P == _get_projects_path
    IN  Len(s) >= Len(P) /\ \A i \in 1..Len(P) : ReChunkMatches(P[i], s[i])

\* [\w\- ]+ against a whole segment
ReWordSegment(seg) == seg # <<>> /\ \A i \in 1..Len(seg) : seg[i] \in WordChunk

\* re.match(rf"^{prefix}\/[\w\- ]+\/runs\/[\w\- ]+\/(raw_data|processed_data|HDF5)\/", s)
run_data_re_match(s) ==
    /\ RePrefixMatches(s)
    /\ LET segs == Split(SubSeq(s, Len(_get_projects_path) + 1, Len(s)))
       IN  /\ Len(segs) >= 6
           /\ segs[1] = <<>>
           /\ ReWordSegment(segs[2])
           /\ segs[3] = <<"runs">>
           /\ ReWordSegment(segs[4])
           /\ segs[5] \in {<<"raw_data">>, <<"processed_data">>, <<"HDF5">>}

\* re.match(rf"^{prefix}\/[\w\- ]+\/documents", s)
document_re_match(s) ==
    /\ RePrefixMatches(s)
    /\ LET segs == Split(SubSeq(s, Len(_get_projects_path) + 1, Len(s)))
       IN  /\ Len(segs) >= 3
           /\ segs[1] = <<>>
           /\ ReWordSegment(segs[2])
           /\ StartsWith(segs[3], <<"documents">>)

_validate_project_file_path(path, current_user) ==
    LET projects_path_prefix == _get_projects_path
        path_without_prefix == ReplaceFirst(path, projects_path_prefix \o <<SLASH>>)
        parts == PathParts(path_without_prefix)
    IN  IF parts = <<>> THEN [raised |-> "IndexError", message |-> <<>>]
        ELSE LET project_name == parts[1]
             IN  IF ~has_project(current_user, project_name) /\ ~current_user.is_admin
                 THEN IncorrectDataFilePath(<<"user is not part of project ">> \o project_name)
                 ELSE Ok

validate_run_data_file_path(path, current_user) ==
    IF ~run_data_re_match(path)
    THEN IncorrectDataFilePath(<<"path must start with {projects_path_prefix}/<project_name>/runs/<run_name>/(processed_data|raw_data|HDF5)/">>)
    ELSE _validate_project_file_path(path, current_user)

validate_project_document_file_path(path, current_user) ==
    IF ~document_re_match(path)
    THEN IncorrectDataFilePath(<<"path must start with {projects_path_prefix}/<project_name>/documents/">>)
    ELSE _validate_project_file_path(path, current_user)

-----------------------------------------------------------------------------
(* Shared access signatures *)

storage_account_name == <<"storageaccount">>
share_name == <<"fileshare">>

FilePermissions(r, c, w, d) == [read |-> r, create |-> c, write |-> w, delete |-> d]

\* what FileSharedAccessSignature.generate_file returns: opaque query parameters
sas_params == <<"sv=...&sig=...">>

\* datetime.timedelta(minutes=...), in seconds
timedelta(minutes) == minutes * 60

\* the seconds that pass between two successive readings of the clock
Elapsed == {0, 1}

\* the readings the next two calls of datetime.utcnow() return
ClockReadings == {<<1000, 1000 + d>> : d \in Elapsed}

IdleClock == utcnow = <<0, 0>>

\* the URL names the file before its directory
Mut__generate_sas_url(dir_path, file_name, permission) ==
    [call |-> [share_name |-> share_name, directory_name |-> dir_path,
               file_name |-> file_name, permission |-> permission,
               expiry |-> utcnow[1] + timedelta(5),
               start |-> utcnow[2]],
     url |-> <<"https://">> \o storage_account_name \o <<".file.core.windows.net/">>
             \o share_name \o <<SLASH>> \o file_name \o <<SLASH>> \o dir_path
             \o <<"?">> \o sas_params]

\* the generate_file call made and the URL returned; the arguments are evaluated
\* in the order they are written: expiry reads the clock first, start reads it next
_generate_sas_url(dir_path, file_name, permission) ==
    [call |-> [share_name |-> share_name, directory_name |-> dir_path,
               file_name |-> file_name, permission |-> permission,
               expiry |-> utcnow[1] + timedelta(5),
               start |-> utcnow[2]],
     url |-> <<"https://">> \o storage_account_name \o <<".file.core.windows.net/">>
             \o share_name \o <<SLASH>> \o dir_path \o <<SLASH>> \o file_name
             \o <<"?">> \o sas_params]

\* a regular user's token carries write as well
Mut_generate_run_data_sas_url(dir_path, file_name, is_admin) ==
    _generate_sas_url(dir_path, file_name, FilePermissions(TRUE, is_admin, TRUE, is_admin))

generate_run_data_sas_url(dir_path, file_name, is_admin) ==
    _generate_sas_url(dir_path, file_name, FilePermissions(TRUE, is_admin, is_admin, is_admin))

generate_project_documents_upload_sas_url(project_name, file_name) ==
    _generate_sas_url(os_path_join(<<_get_projects_path, project_name, <<"documents">> >>),
                      file_name, FilePermissions(FALSE, TRUE, TRUE, FALSE))

generate_project_documents_sas_url(dir_path, file_name) ==
    _generate_sas_url(dir_path, file_name, FilePermissions(TRUE, FALSE, FALSE, TRUE))

-----------------------------------------------------------------------------
(* Inputs of the path-bearing operations *)

MaxSegs == 6

\* the configured prefixes considered: a plain name, none, a name with a dot
Prefixes == {<<"projects">>, <<>>, <<"data", ".", "v1">>}

\* the values tried for the i-th segment of a requested path
SegAt(i) ==
    CASE i = 1 -> {<<"projects">>, <<"start">>, <<"data", ".", "v1">>, <<"data", "x", "v1">>, <<>>}
      [] i = 2 -> {<<"hello">>, <<"other">>, <<"hel", "|", "lo">>}
      [] i = 3 -> {<<"runs">>, <<"not", "runs">>, <<"documents">>, <<"documents", "x">>, <<"world">>}
      [] i = 4 -> {<<"world">>, <<"wor", "|", "ld">>, <<"documents">>}
      [] i = 5 -> {<<"raw_data">>, <<"processed_data">>, <<"HDF5">>, <<"other_data">>}
      [] OTHER -> {<<>>, <<"f", ".", "txt">>}

RECURSIVE SegListsOfLen(_)
SegListsOfLen(n) ==
    IF n = 0 THEN {<<>>}
    ELSE {Append(segs, seg) : segs \in SegListsOfLen(n - 1), seg \in SegAt(n)}

SegLists == UNION {SegListsOfLen(n) : n \in 1..MaxSegs}

Paths == {Join(segs) : segs \in SegLists}

ProjectNames == {<<"hello">>, <<"other">>}
FileNames == {<<"f", ".", "txt">>}

NoReq == [op |-> "none"]
NoResp == [status |-> 0]

HTTP422(error) ==
    [status |-> 422, detail |-> <<[loc |-> <<"query", "path">>, msg |-> error.message]>>]

-----------------------------------------------------------------------------
(* Calls of the validators and the SAS endpoints (api/data.py) *)

\* validate_run_data_file_path called with the string as it is (as the tests do)
CallValidateRunData(path, user) ==
    /\ req = NoReq
    /\ req' = [op |-> "validate_run_data_file_path", path |-> path, user |-> user]
    /\ resp' = validate_run_data_file_path(path, user)
    /\ signed' = <<>>
    /\ utcnow' \in ClockReadings
    /\ UNCHANGED <<prefix, walkVars, streamVars, taskVars>>

CallValidateProjectDocument(path, user) ==
    /\ req = NoReq
    /\ req' = [op |-> "validate_project_document_file_path", path |-> path, user |-> user]
    /\ resp' = validate_project_document_file_path(path, user)
    /\ signed' = <<>>
    /\ utcnow' \in ClockReadings
    /\ UNCHANGED <<prefix, walkVars, streamVars, taskVars>>

\* the token is generated before the path is validated
Mut_generate_run_data_shared_access_signature(path, current_user) ==
    LET error == validate_run_data_file_path(PathStr(path), current_user)
        sas == generate_run_data_sas_url(PathParent(path), PathName(path),
                                         current_user.is_admin)
    IN  /\ req = NoReq
        /\ req' = [op |-> "generate_run_data_shared_access_signature",
                   path |-> path, user |-> current_user]
        /\ signed' = <<sas.call>>
        /\ IF error.raised = "IncorrectDataFilePath"
           THEN resp' = HTTP422(error)
           ELSE resp' = [status |-> 200, url |-> sas.url]
        /\ UNCHANGED <<prefix, utcnow, walkVars, streamVars, taskVars>>

\* GET /data/runs/shared_access_signature?path=...
generate_run_data_shared_access_signature(path, current_user) ==
    LET error == validate_run_data_file_path(PathStr(path), current_user)
        sas == generate_run_data_sas_url(PathParent(path), PathName(path),
                                         current_user.is_admin)
    IN  /\ req = NoReq
        /\ req' = [op |-> "generate_run_data_shared_access_signature",
                   path |-> path, user |-> current_user]
        /\ IF error.raised = "IncorrectDataFilePath"
           THEN resp' = HTTP422(error) /\ signed' = <<>>
           ELSE IF error.raised # "none"
           THEN resp' = [status |-> 500] /\ signed' = <<>>
           ELSE resp' = [status |-> 200, url |-> sas.url] /\ signed' = <<sas.call>>
        /\ UNCHANGED <<prefix, utcnow, walkVars, streamVars, taskVars>>

\* GET /data/documents/shared_access_signature/?path=...
generate_project_documents_shared_access_signature(path, current_user) ==
    LET error == validate_project_document_file_path(PathStr(path), current_user)
        sas == generate_project_documents_sas_url(PathParent(path), PathName(path))
    IN  /\ req = NoReq
        /\ req' = [op |-> "generate_project_documents_shared_access_signature",
                   path |-> path, user |-> current_user]
        /\ IF error.raised = "IncorrectDataFilePath"
           THEN resp' = HTTP422(error) /\ signed' = <<>>
           ELSE IF error.raised # "none"
           THEN resp' = [status |-> 500] /\ signed' = <<>>
           ELSE resp' = [status |-> 200, url |-> sas.url] /\ signed' = <<sas.call>>
        /\ UNCHANGED <<prefix, utcnow, walkVars, streamVars, taskVars>>

\* GET /data/{project_name}/documents/upload/shared_access_signature?file_name=...
generate_project_documents_upload_shared_access_signature(project_name, file_name, current_user) ==
    LET sas == generate_project_documents_upload_sas_url(project_name, file_name)
    IN  /\ req = NoReq
        /\ req' = [op |-> "generate_project_documents_upload_shared_access_signature",
                   project_name |-> project_name, file_name |-> file_name,
                   user |-> current_user]
        /\ IF ~verify_project_membership(project_name, current_user)
           THEN resp' = [status |-> 403] /\ signed' = <<>>
           ELSE resp' = [status |-> 200, url |-> sas.url] /\ signed' = <<sas.call>>
        /\ UNCHANGED <<prefix, utcnow, walkVars, streamVars, taskVars>>

\* the requests and calls that arrive while no other is being handled
TestValidateRunData ==
    /\ req = NoReq
    /\ \E path \in Paths, user \in Users : CallValidateRunData(path, user)

TestValidateProjectDocument ==
    /\ req = NoReq
    /\ \E path \in Paths, user \in Users : CallValidateProjectDocument(path, user)

GET_runs_shared_access_signature ==
    /\ req = NoReq
    /\ \E path \in Paths, user \in Users :
           generate_run_data_shared_access_signature(path, user)

GET_documents_shared_access_signature ==
    /\ req = NoReq
    /\ \E path \in Paths, user \in Users :
           generate_project_documents_shared_access_signature(path, user)

GET_documents_upload_shared_access_signature ==
    /\ req = NoReq
    /\ \E project_name \in ProjectNames, file_name \in FileNames, user \in Users :
           generate_project_documents_upload_shared_access_signature(
               project_name, file_name, user)

\* the response has been sent: the next request finds nothing of this one
Respond ==
    /\ req # NoReq
    /\ req' = NoReq
    /\ resp' = NoResp
    /\ signed' = <<>>
    /\ utcnow' \in ClockReadings
    /\ UNCHANGED <<prefix, walkVars, streamVars, taskVars>>

-----------------------------------------------------------------------------
(* The file share and the recursive listing (DataAzureClient._list_files_recursive) *)

None == <<>>

\* a tree entry: a file, or a directory with the entries below it
FileNode(name, size) == [name |-> name, dir |-> FALSE, sub |-> <<>>, size |-> size]
DirNode(name, sub) == [name |-> name, dir |-> TRUE, sub |-> sub, size |-> 0]

\* what list_directories_and_files returns for a directory holding these entries
Listing(nodes) ==
    [i \in 1..Len(nodes) |->
        [name |-> nodes[i].name, is_directory |-> nodes[i].dir, size |-> nodes[i].size]]

RECURSIVE DirsOf(_, _)
\* the directories of a tree rooted at path, each with its listing
DirsOf(path, nodes) ==
    {<<path, Listing(nodes)>>} \cup
    UNION {DirsOf(os_path_join(<<path, nodes[i].name>>), nodes[i].sub) :
               i \in {j \in 1..Len(nodes) : nodes[j].dir}}

ShareOf(nodes) ==
    LET dirs == DirsOf(<<>>, nodes)
    IN  [d \in {x[1] : x \in dirs} |-> (CHOOSE x \in dirs : x[1] = d)[2]]

\* ShareDirectoryClient.list_directories_and_files of dir_path
list_directories_and_files(dir_path) ==
    IF dir_path \in DOMAIN share
    THEN [raised |-> "none", items |-> share[dir_path]]
    ELSE [raised |-> "ResourceNotFoundError", items |-> <<>>]

last_modified_of_share == <<"2022-06-22 11:22:33">>

\* ShareFileClient.get_file_properties of file_path (dir_path/name)
get_file_properties(dir_path, name) ==
    IF dir_path \in DOMAIN share
          /\ \E i \in 1..Len(share[dir_path]) :
                 share[dir_path][i].name = name /\ ~share[dir_path][i].is_directory
    THEN LET file == share[dir_path][CHOOSE i \in 1..Len(share[dir_path]) :
                                         share[dir_path][i].name = name]
         IN  [raised |-> "none",
              properties |-> [name |-> name, last_modified |-> last_modified_of_share,
                              size |-> file.size,
                              path |-> os_path_join(<<dir_path, name>>)]]
    ELSE [raised |-> "ResourceNotFoundError", properties |-> None]

NoWalk == [pc |-> "idle", stack |-> <<>>, out |-> <<>>, raised |-> "none"]

\* the generator starts at the second entry of its listing
Mut_Frame(dir_path, fetch_detailed_information) ==
    [dir_path |-> dir_path, fetch_detailed_information |-> fetch_detailed_information,
     listed |-> FALSE, items |-> <<>>, i |-> 2]

\* a generator of _list_files_recursive: created, not yet run
Frame(dir_path, fetch_detailed_information) ==
    [dir_path |-> dir_path, fetch_detailed_information |-> fetch_detailed_information,
     listed |-> FALSE, items |-> <<>>, i |-> 1]

Event(ev, path) == [ev |-> ev, path |-> path]

\* the listing is taken from the end
Mut_NextEntry(frame) == frame.items[Len(frame.items) + 1 - frame.i]

\* for file in dir_client.list_directories_and_files(): the entry taken next
NextEntry(frame) == frame.items[frame.i]

\* the provider's error is passed on as it is
Mut_NotFoundOf(op) == "ResourceNotFoundError"

\* except ResourceNotFoundError: the domain error of the call site
NotFoundOf(op) ==
    IF op = "list_project_documents" THEN "ProjectDocumentsNotFound" ELSE "RunDataNotFound"

\* the endpoint's answer to an error of the client call
ListingError(op, raised) ==
    IF op = "list_project_documents" /\ raised = "ProjectDocumentsNotFound"
    THEN [status |-> 404, detail |-> <<"Folder for the project documents not found">>]
    ELSE IF op = "list_run_data" /\ raised = "RunDataNotFound"
    THEN [status |-> 404, detail |-> <<"Run data not found">>]
    ELSE [status |-> 500, detail |-> <<raised>>]

\* GET /data/{project_name}/documents -> get_project_documents(project_name)
list_project_documents(project_name, user) ==
    /\ req = NoReq
    /\ req' = [op |-> "list_project_documents", project_name |-> project_name,
               user |-> user]
    /\ IF ~verify_project_membership(project_name, user)
       THEN resp' = [status |-> 403] /\ walk' = [NoWalk EXCEPT !.pc = "done"]
       ELSE /\ resp' = NoResp
            /\ walk' = [NoWalk EXCEPT !.pc = "run",
                   !.stack = <<Frame(os_path_join(<<_get_projects_path, project_name,
                                                     <<"documents">> >>), TRUE)>>]
    /\ trace' = <<>>
    /\ UNCHANGED <<prefix, utcnow, signed, share, done, streamVars, taskVars>>

\* GET /data/{project_name}/runs/{run_name}/{data_type} -> get_run_files(...)
list_run_data(project_name, run_name, data_type, user) ==
    /\ req = NoReq
    /\ data_type \in {<<"raw_data">>, <<"processed_data">>, <<"HDF5">>}
    /\ req' = [op |-> "list_run_data", project_name |-> project_name,
               run_name |-> run_name, data_type |-> data_type, user |-> user]
    /\ IF ~verify_project_membership(project_name, user)
       THEN resp' = [status |-> 403] /\ walk' = [NoWalk EXCEPT !.pc = "done"]
       ELSE /\ resp' = NoResp
            /\ walk' = [NoWalk EXCEPT !.pc = "run",
                   !.stack = <<Frame(os_path_join(<<_get_projects_path, project_name,
                                         <<"runs">>, run_name, data_type>>), FALSE)>>]
    /\ trace' = <<>>
    /\ UNCHANGED <<prefix, utcnow, signed, share, done, streamVars, taskVars>>

\* a directory below the first that is not found is taken as empty
Mut_WalkList ==
    /\ walk.pc = "run"
    /\ LET n == Len(walk.stack)
           top == walk.stack[n]
           listing == list_directories_and_files(top.dir_path)
       IN  /\ ~top.listed
           /\ trace' = Append(trace, Event("list", top.dir_path))
           /\ IF listing.raised = "ResourceNotFoundError" /\ n = 1
              THEN /\ walk' = [walk EXCEPT !.pc = "done", !.stack = <<>>,
                                           !.raised = NotFoundOf(req.op)]
                   /\ resp' = ListingError(req.op, NotFoundOf(req.op))
              ELSE /\ walk' = [walk EXCEPT !.stack[n].listed = TRUE,
                                           !.stack[n].items = listing.items]
                   /\ UNCHANGED resp
    /\ UNCHANGED <<prefix, utcnow, req, signed, share, done, streamVars, taskVars>>

\* the innermost generator starts: it lists its directory; a ResourceNotFoundError
\* leaves every generator and is caught around list(files)
WalkList ==
    /\ walk.pc = "run"
    /\ LET n == Len(walk.stack)
           top == walk.stack[n]
           listing == list_directories_and_files(top.dir_path)
       IN  /\ ~top.listed
           /\ trace' = Append(trace, Event("list", top.dir_path))
           /\ IF listing.raised = "ResourceNotFoundError"
              THEN /\ walk' = [walk EXCEPT !.pc = "done", !.stack = <<>>,
                                           !.raised = NotFoundOf(req.op)]
                   /\ resp' = ListingError(req.op, NotFoundOf(req.op))
              ELSE /\ walk' = [walk EXCEPT !.stack[n].listed = TRUE,
                                           !.stack[n].items = listing.items]
                   /\ UNCHANGED resp
    /\ UNCHANGED <<prefix, utcnow, req, signed, share, done, streamVars, taskVars>>

\* the innermost generator takes the next entry of its listing
WalkEntry ==
    /\ walk.pc = "run"
    /\ LET n == Len(walk.stack)
           top == walk.stack[n]
           file == NextEntry(top)
           path == os_path_join(<<top.dir_path, file.name>>)
           props == get_file_properties(top.dir_path, file.name)
       IN  /\ top.listed
           /\ top.i <= Len(top.items)
           /\ IF file.is_directory
              THEN /\ walk' = [walk EXCEPT !.stack =
                            Append([walk.stack EXCEPT ![n].i = top.i + 1], Frame(path, FALSE))]
                   /\ UNCHANGED <<trace, resp>>
              ELSE IF top.fetch_detailed_information
              THEN /\ IF props.raised = "ResourceNotFoundError"
                      THEN /\ walk' = [walk EXCEPT !.pc = "done", !.stack = <<>>,
                                                   !.raised = NotFoundOf(req.op)]
                           /\ resp' = ListingError(req.op, NotFoundOf(req.op))
                           /\ trace' = Append(trace, Event("get_file_properties", path))
                      ELSE /\ walk' = [walk EXCEPT !.stack[n].i = top.i + 1,
                                   !.out = Append(walk.out,
                                       [name |-> props.properties.name,
                                        last_modified |-> props.properties.last_modified,
                                        size |-> props.properties.size,
                                        path |-> props.properties.path])]
                           /\ trace' = trace \o <<Event("get_file_properties", path),
                                                  Event("yield", path)>>
                           /\ UNCHANGED resp
              ELSE /\ walk' = [walk EXCEPT !.stack[n].i = top.i + 1,
                           !.out = Append(walk.out,
                               [name |-> file.name, last_modified |-> None,
                                size |-> file.size, path |-> path])]
                   /\ trace' = Append(trace, Event("yield", path))
                   /\ UNCHANGED resp
    /\ UNCHANGED <<prefix, utcnow, req, signed, share, done, streamVars, taskVars>>

\* the innermost generator is exhausted; when it is the outermost one, list(files)
\* is complete and the endpoint returns it
WalkReturn ==
    /\ walk.pc = "run"
    /\ LET n == Len(walk.stack)
           top == walk.stack[n]
       IN  /\ top.listed
           /\ top.i > Len(top.items)
           /\ IF n = 1
              THEN /\ walk' = [walk EXCEPT !.pc = "done", !.stack = <<>>]
                   /\ resp' = [status |-> 200, body |-> walk.out]
              ELSE /\ walk' = [walk EXCEPT !.stack = SubSeq(walk.stack, 1, n - 1)]
                   /\ UNCHANGED resp
    /\ UNCHANGED <<prefix, utcnow, req, signed, share, trace, done, streamVars, taskVars>>

\* the response of a listing request has been sent
RespondListing ==
    /\ walk.pc = "done"
    /\ req' = NoReq
    /\ resp' = NoResp
    /\ walk' = NoWalk
    /\ trace' = <<>>
    /\ UNCHANGED <<prefix, utcnow, signed, share, done, streamVars, taskVars>>

\* no directory request answered yet
NoDone == [op |-> "none"]

IdleWalk == share = <<>> /\ walk = NoWalk /\ trace = <<>> /\ done = NoDone

-----------------------------------------------------------------------------
(* AzureFileShareFile: the stream over one remote file *)

\* whence of seek
SEEK_SET == "SEEK_SET"
SEEK_CUR == "SEEK_CUR"
SEEK_END == "SEEK_END"

\* functools.lru_cache without arguments: maxsize of 128 entries
lru_maxsize == 128

\* An Optional[int]: None, or Some(n)
Some(n) == <<n>>

\* The two streams the model operates step by step; both are over the same file.
\* A stream is identified as Python identifies self: by an integer.
Streams == {1, 2}

\* the greatest length in bytes of the file of streams 1 and 2
FileLength == 4

\* the stream another request of the process constructs for its download
OtherStreams == {3}

IsOtherStream(self) == self \in OtherStreams

\* the length of the file a stream is over; another request's file has one byte
\* for each entry the cache can hold
LengthOf(self) == IF IsOtherStream(self) THEN lru_maxsize ELSE remote

\* the byte at position i (from 0) of the file of stream self
ByteAt(self, i) == (IF IsOtherStream(self) THEN i + 7 ELSE i + 1) % 256

\* the outcomes of a call to the provider: it answers, or it raises
ProviderOutcomes == {"ok", "AzureException"}

NoValue == [content |-> <<>>, content_length |-> 0]

\* the end of the range is taken as the first byte not to send
Mut_get_file_to_bytes(self, start_range, end_range) ==
    LET length == LengthOf(self)
        stop == IF end_range = None \/ end_range[1] > length
                THEN length - 1 ELSE end_range[1] - 1
    IN  IF start_range < 0 \/ start_range >= length \/ stop < start_range
        THEN [raised |-> "AzureException", value |-> NoValue]
        ELSE [raised |-> "none",
              value |-> [content |-> [i \in 1..(stop - start_range + 1) |->
                                          ByteAt(self, start_range + i - 1)],
                         content_length |-> stop - start_range + 1]]

\* FileService.get_file_to_bytes(share, directory, file, start_range, end_range):
\* the bytes of the inclusive range, cut at the end of the file; the length it
\* reports is that of what it downloaded.  A range starting before the file, or
\* at or after its end, is refused by the service.
get_file_to_bytes(self, start_range, end_range) ==
    LET length == LengthOf(self)
        stop == IF end_range = None \/ end_range[1] > length - 1
                THEN length - 1 ELSE end_range[1]
    IN  IF start_range < 0 \/ start_range >= length \/ stop < start_range
        THEN [raised |-> "AzureException", value |-> NoValue]
        ELSE [raised |-> "none",
              value |-> [content |-> [i \in 1..(stop - start_range + 1) |->
                                          ByteAt(self, start_range + i - 1)],
                         content_length |-> stop - start_range + 1]]

\* the position in the cache of the entry of key, 0 when it has none
CacheIndex(c, key) ==
    IF \E i \in 1..Len(c) : c[i].key = key
    THEN CHOOSE i \in 1..Len(c) : c[i].key = key
    ELSE 0

\* lru_cache, a hit: the entry becomes the most recently used one
lru_hit(c, i) ==
    [j \in 1..Len(c) |-> IF j < i THEN c[j] ELSE IF j < Len(c) THEN c[j + 1] ELSE c[i]]

\* a cache that holds one entry less
Mut_lru_keep(c) ==
    IF Len(c) > lru_maxsize - 1
    THEN SubSeq(c, Len(c) - (lru_maxsize - 1) + 1, Len(c))
    ELSE c

\* lru_cache keeps the maxsize most recently used entries
lru_keep(c) ==
    IF Len(c) > lru_maxsize
    THEN SubSeq(c, Len(c) - lru_maxsize + 1, Len(c))
    ELSE c

\* lru_cache, a miss: the result is stored as the most recently used entry; a
\* full cache drops its least recently used entry for it
lru_put(c, key, value) == lru_keep(Append(c, [key |-> key, value |-> value]))

\* the key the entry dropped by lru_put had, None when none is dropped
Evicted(c) == IF Len(c) >= lru_maxsize THEN c[1].key ELSE None

\* the calls of _read_chunk that returned, by key, ordered by their last call
Touch(r, key) == Append(SelectSeq(r, LAMBDA k : k # key), key)

\* how many other keys _read_chunk was called with since its last call with key
Since(r, key) ==
    IF \E i \in 1..Len(r) : r[i] = key
    THEN Len(r) - (CHOOSE i \in 1..Len(r) : r[i] = key)
    ELSE 0

Seen(r, key) == \E i \in 1..Len(r) : r[i] = key

Count(f, key) == IF key \in DOMAIN f THEN f[key] ELSE 0

Inc(f, key) == (key :> Count(f, key) + 1) @@ f

\* a call that raises is stored as a call that returned nothing
Mut__read_chunk(mem, self, start_range, end_range, outcome) ==
    LET key == <<self, start_range, end_range>>
        i == CacheIndex(mem.cache, key)
        file == get_file_to_bytes(self, start_range, end_range)
    IN  IF i > 0
        THEN [cache |-> lru_hit(mem.cache, i),
              recency |-> Touch(mem.recency, key),
              fetches |-> mem.fetches,
              hit |-> TRUE, raised |-> "none", evicted |-> None,
              value |-> mem.cache[i].value]
        ELSE IF outcome # "ok" \/ file.raised # "none"
        THEN [cache |-> lru_put(mem.cache, key, NoValue),
              recency |-> mem.recency,
              fetches |-> mem.fetches,
              hit |-> FALSE, raised |-> "AzureException", evicted |-> None,
              value |-> NoValue]
        ELSE [cache |-> lru_put(mem.cache, key, file.value),
              recency |-> Touch(mem.recency, key),
              fetches |-> Inc(mem.fetches, key),
              hit |-> FALSE, raised |-> "none", evicted |-> Evicted(mem.cache),
              value |-> file.value]

\* AzureFileShareFile._read_chunk under functools.lru_cache, on the memory
\* mem = [cache, recency, fetches]: the key is (self, start_range, end_range);
\* a hit returns the stored result without a call; a miss calls the provider
\* and stores what it returns; a call that raises stores nothing.
_read_chunk(mem, self, start_range, end_range, outcome) ==
    LET key == <<self, start_range, end_range>>
        i == CacheIndex(mem.cache, key)
        file == get_file_to_bytes(self, start_range, end_range)
    IN  IF i > 0
        THEN [cache |-> lru_hit(mem.cache, i),
              recency |-> Touch(mem.recency, key),
              fetches |-> mem.fetches,
              hit |-> TRUE, raised |-> "none", evicted |-> None,
              value |-> mem.cache[i].value]
        ELSE IF outcome # "ok" \/ file.raised # "none"
        THEN [cache |-> mem.cache,
              recency |-> mem.recency,
              fetches |-> mem.fetches,
              hit |-> FALSE, raised |-> "AzureException", evicted |-> None,
              value |-> NoValue]
        ELSE [cache |-> lru_put(mem.cache, key, file.value),
              recency |-> Touch(mem.recency, key),
              fetches |-> Inc(mem.fetches, key),
              hit |-> FALSE, raised |-> "none", evicted |-> Evicted(mem.cache),
              value |-> file.value]

Memory == [cache |-> cache, recency |-> recency, fetches |-> fetches]

NoOp ==
    [op |-> "none", self |-> 0, size |-> 0, key |-> None, seen |-> FALSE,
     since |-> 0, hit |-> FALSE, evicted |-> None, raised |-> "none",
     content |-> <<>>, returned |-> 0, calls |-> <<>>]

\* AzureFileShareFile.__init__, by DataAzureClient.download_run_file
download_run_file ==
    [_offset |-> 0, _content_length |-> None]

\* the number of operations performed on the streams
MaxOps == 3

Open(self) == self \in Streams /\ self \notin closed /\ ops < MaxOps

\* a read of no byte is made as any other read
Mut_read(self, size, outcome) ==
    /\ Open(self)
    /\ LET _offset == stream[self]._offset
           end_range == IF size > -1 THEN Some(_offset + size - 1) ELSE None
           key == <<self, _offset, end_range>>
           chunk == _read_chunk(Memory, self, _offset, end_range, outcome)
       IN  IF FALSE
           THEN /\ stream' = stream
                /\ last' = [NoOp EXCEPT !.op = "read", !.self = self]
                /\ UNCHANGED <<cache, recency, fetches>>
           ELSE /\ cache' = chunk.cache
                /\ recency' = chunk.recency
                /\ fetches' = chunk.fetches
                /\ stream' =
                       [stream EXCEPT
                           ![self]._offset =
                               IF chunk.raised # "none" THEN @
                               ELSE IF end_range # None THEN @ + size
                               ELSE chunk.value.content_length]
                /\ last' = [op |-> "read", self |-> self, size |-> size, key |-> key,
                            seen |-> Seen(recency, key),
                            since |-> Since(recency, key),
                            hit |-> chunk.hit, evicted |-> chunk.evicted,
                            raised |-> chunk.raised,
                            content |-> chunk.value.content, returned |-> 0,
                            calls |-> IF chunk.hit THEN <<>>
                                      ELSE <<"get_file_to_bytes">>]
    /\ ops' = ops + 1
    /\ UNCHANGED <<closed, remote>>
    /\ UNCHANGED <<pathVars, walkVars, taskVars>>

\* AzureFileShareFile.read(size)
read(self, size, outcome) ==
    /\ Open(self)
    /\ LET _offset == stream[self]._offset
           end_range == IF size > -1 THEN Some(_offset + size - 1) ELSE None
           key == <<self, _offset, end_range>>
           chunk == _read_chunk(Memory, self, _offset, end_range, outcome)
       IN  IF size = 0
           THEN /\ stream' = stream
                /\ last' = [NoOp EXCEPT !.op = "read", !.self = self]
                /\ UNCHANGED <<cache, recency, fetches>>
           ELSE /\ cache' = chunk.cache
                /\ recency' = chunk.recency
                /\ fetches' = chunk.fetches
                /\ stream' =
                       [stream EXCEPT
                           ![self]._offset =
                               IF chunk.raised # "none" THEN @
                               ELSE IF end_range # None THEN @ + size
                               ELSE chunk.value.content_length]
                /\ last' = [op |-> "read", self |-> self, size |-> size, key |-> key,
                            seen |-> Seen(recency, key),
                            since |-> Since(recency, key),
                            hit |-> chunk.hit, evicted |-> chunk.evicted,
                            raised |-> chunk.raised,
                            content |-> chunk.value.content, returned |-> 0,
                            calls |-> IF chunk.hit THEN <<>>
                                      ELSE <<"get_file_to_bytes">>]
    /\ ops' = ops + 1
    /\ UNCHANGED <<closed, remote>>
    /\ UNCHANGED <<pathVars, walkVars, taskVars>>

\* the length of the file is asked of the provider each time it is read
Mut_content_length(self) ==
    [value |-> remote, calls |-> <<"get_file_properties">>]

\* AzureFileShareFile.content_length: the property fetches the properties of the
\* file the first time it is read and keeps the length in _content_length
content_length(self) ==
    IF stream[self]._content_length = None
    THEN [value |-> remote, calls |-> <<"get_file_properties">>]
    ELSE [value |-> stream[self]._content_length[1], calls |-> <<>>]

\* a seek from the end adds the offset to the length
Mut_seek(self, offset, whence) ==
    /\ Open(self)
    /\ LET _offset == CASE whence = SEEK_SET -> offset
                        [] whence = SEEK_CUR -> stream[self]._offset + offset
                        [] whence = SEEK_END -> content_length(self).value + offset
       IN  /\ stream' =
                  [stream EXCEPT
                      ![self]._offset = _offset,
                      ![self]._content_length =
                          IF whence = SEEK_END
                          THEN Some(content_length(self).value) ELSE @]
           /\ last' = [NoOp EXCEPT
                          !.op = "seek", !.self = self, !.size = offset,
                          !.returned = _offset,
                          !.calls = IF whence = SEEK_END
                                    THEN content_length(self).calls ELSE <<>>]
                      @@ [whence |-> whence]
    /\ ops' = ops + 1
    /\ UNCHANGED <<cache, recency, fetches, closed, remote>>
    /\ UNCHANGED <<pathVars, walkVars, taskVars>>

\* AzureFileShareFile.seek(offset, whence)
seek(self, offset, whence) ==
    /\ Open(self)
    /\ LET _offset == CASE whence = SEEK_SET -> offset
                        [] whence = SEEK_CUR -> stream[self]._offset + offset
                        [] whence = SEEK_END -> content_length(self).value - offset
       IN  /\ stream' =
                  [stream EXCEPT
                      ![self]._offset = _offset,
                      ![self]._content_length =
                          IF whence = SEEK_END
                          THEN Some(content_length(self).value) ELSE @]
           /\ last' = [NoOp EXCEPT
                          !.op = "seek", !.self = self, !.size = offset,
                          !.returned = _offset,
                          !.calls = IF whence = SEEK_END
                                    THEN content_length(self).calls ELSE <<>>]
                      @@ [whence |-> whence]
    /\ ops' = ops + 1
    /\ UNCHANGED <<cache, recency, fetches, closed, remote>>
    /\ UNCHANGED <<pathVars, walkVars, taskVars>>

\* AzureFileShareFile.tell()
tell(self) ==
    /\ Open(self)
    /\ stream' = stream
    /\ last' = [NoOp EXCEPT !.op = "tell", !.self = self,
                            !.returned = stream[self]._offset]
    /\ ops' = ops + 1
    /\ UNCHANGED <<cache, recency, fetches, closed, remote>>
    /\ UNCHANGED <<pathVars, walkVars, taskVars>>

\* The caller drops its last reference to the stream.  Nothing of
\* AzureFileShareFile runs: the entries of the cache stay, and each holds self.
Discard(self) ==
    /\ self \in Streams
    /\ self \notin closed
    /\ closed' = closed \cup {self}
    /\ last' = [NoOp EXCEPT !.op = "discard", !.self = self]
    /\ UNCHANGED <<stream, cache, recency, fetches, ops, remote>>
    /\ UNCHANGED <<pathVars, walkVars, taskVars>>

\* the numbers of read calls of another request's download
DownloadReads == {lru_maxsize - 1, lru_maxsize}

\* Another request of the process downloads its file: download_run_file
\* constructs a stream, the consumer reads the first n bytes of the file with
\* n read(1) calls, and drops the stream.  The stream is a new object, so each
\* of its calls of _read_chunk is a miss, under the key (self, i, i).
OtherDownload(self, n) ==
    /\ self \in OtherStreams
    /\ self \notin closed
    /\ LET keys == [i \in 1..n |-> <<self, i - 1, Some(i - 1)>>]
           entries == [i \in 1..n |->
                          [key |-> keys[i],
                           value |-> get_file_to_bytes(self, i - 1, Some(i - 1)).value]]
       IN  /\ cache' = lru_keep(cache \o entries)
           /\ recency' = recency \o keys
           /\ fetches' = [k \in {keys[i] : i \in 1..n} |-> 1] @@ fetches
           /\ closed' = closed \cup {self}
           /\ last' = [NoOp EXCEPT !.op = "download", !.self = self, !.size = n]
    /\ UNCHANGED <<stream, ops, remote>>
    /\ UNCHANGED <<pathVars, walkVars, taskVars>>

IdleStream ==
    /\ stream = <<>>
    /\ cache = <<>>
    /\ recency = <<>>
    /\ fetches = <<>>
    /\ closed = {}
    /\ ops = 0
    /\ remote = 0
    /\ last = NoOp
    /\ before = <<>>

-----------------------------------------------------------------------------
(* The shares listed *)

MaxNodes == 4

\* the name of the i-th entry of a listing
EntryName(is_directory, i) ==
    <<(IF is_directory THEN "directory-" ELSE "file-") \o ToString(i)>>

RECURSIVE ForestsOfSize(_)
\* every ordered forest of n unnamed nodes, each a file or a directory
ForestsOfSize(n) ==
    IF n = 0 THEN {<<>>}
    ELSE {<<[dir |-> FALSE, sub |-> <<>>]>> \o rest : rest \in ForestsOfSize(n - 1)}
         \cup UNION {{<<[dir |-> TRUE, sub |-> sub]>> \o rest :
                          sub \in ForestsOfSize(k), rest \in ForestsOfSize(n - 1 - k)} :
                     k \in 0..(n - 1)}

RECURSIVE Named(_)
\* the entries of a forest, named by their place in the listing
Named(forest) ==
    [i \in 1..Len(forest) |->
        IF forest[i].dir THEN DirNode(EntryName(TRUE, i), Named(forest[i].sub))
        ELSE FileNode(EntryName(FALSE, i), 100 + i)]

Forests == UNION {ForestsOfSize(n) : n \in 0..MaxNodes}

\* a share where project hello has been set up with run world, the documents and
\* the raw data holding the given entries; the projects live below the prefix
SkeletonOf(nodes) ==
    LET project == <<DirNode(<<"hello">>, <<
                        DirNode(<<"documents">>, nodes),
                        DirNode(<<"runs">>, <<
                            DirNode(<<"world">>, <<
                                DirNode(<<"processed_data">>, <<>>),
                                DirNode(<<"raw_data">>, nodes)>>)>>)>>)>>
    IN  IF prefix = <<>> THEN project ELSE <<DirNode(prefix, project)>>

WalkUsers == {admin, alice}
WalkProjects == {<<"hello">>, <<"other">>}
WalkRuns == {<<"world">>}
WalkDataTypes == {<<"raw_data">>, <<"HDF5">>}

GET_documents ==
    \E project_name \in WalkProjects, user \in WalkUsers :
        list_project_documents(project_name, user)

GET_run_data ==
    \E project_name \in WalkProjects, run_name \in WalkRuns,
       data_type \in WalkDataTypes, user \in WalkUsers :
        list_run_data(project_name, run_name, data_type, user)

InitWalk ==
    /\ prefix \in {<<"projects">>, <<>>}
    /\ IdleClock
    /\ req = NoReq
    /\ resp = NoResp
    /\ signed = <<>>
    /\ \E forest \in Forests : share = ShareOf(SkeletonOf(Named(forest)))
    /\ walk = NoWalk
    /\ trace = <<>>
    /\ done = NoDone
    /\ IdleStream
    /\ IdleTasks

NextWalk ==
    \/ GET_documents
    \/ GET_run_data
    \/ WalkList
    \/ WalkEntry
    \/ WalkReturn
    \/ RespondListing

SpecWalk == InitWalk /\ [][NextWalk]_vars

-----------------------------------------------------------------------------
(* Specification of the path-bearing operations *)

InitPath ==
    /\ prefix \in Prefixes
    /\ utcnow \in ClockReadings
    /\ req = NoReq
    /\ resp = NoResp
    /\ signed = <<>>
    /\ IdleWalk
    /\ IdleStream
    /\ IdleTasks

NextPath ==
    \/ TestValidateRunData
    \/ TestValidateProjectDocument
    \/ GET_runs_shared_access_signature
    \/ GET_documents_shared_access_signature
    \/ GET_documents_upload_shared_access_signature
    \/ Respond

SpecPath == InitPath /\ [][NextPath]_vars

-----------------------------------------------------------------------------
(* Claims about path validation *)

\* the segments of path after "<prefix>/", or <<>> when path does not begin with it
AfterPrefix(path) ==
    IF StartsWith(path, prefix \o <<SLASH>>)
    THEN Split(SubSeq(path, Len(prefix) + 2, Len(path)))
    ELSE <<>>

\* path begins with <prefix>/<project>/runs/<run>/<data_type>/
RunDataShape(path) ==
    LET segs == AfterPrefix(path)
    IN  /\ Len(segs) >= 5
        /\ ReWordSegment(segs[1])
        /\ segs[2] = <<"runs">>
        /\ ReWordSegment(segs[3])
        /\ segs[4] \in RunDataTypeType

\* path begins with <prefix>/<project>/documents, documents being a whole segment
DocumentShape(path) ==
    LET segs == AfterPrefix(path)
    IN  /\ Len(segs) >= 2
        /\ ReWordSegment(segs[1])
        /\ segs[2] = <<"documents">>

MayAccess(user, path) == user.is_admin \/ AfterPrefix(path)[1] \in user.projects

\* C1: validate_run_data_file_path succeeds exactly when the path begins with
\* <prefix>/<project>/runs/<run>/<data_type>/ and the user is admin or has the
\* project; in every other case it raises IncorrectDataFilePath.
C1_RunDataValidation ==
    req.op = "validate_run_data_file_path" =>
        /\ (resp = Ok) <=> (RunDataShape(req.path) /\ MayAccess(req.user, req.path))
        /\ resp # Ok => resp.raised = "IncorrectDataFilePath"

\* C2: validate_project_document_file_path succeeds only for <prefix>/<project>/documents...
\* with documents the segment right after the project, and only for an admin or an
\* owner of the project.
C2_DocumentValidation ==
    req.op = "validate_project_document_file_path" =>
        /\ resp = Ok => (DocumentShape(req.path) /\ MayAccess(req.user, req.path))
        /\ resp # Ok => resp.raised = "IncorrectDataFilePath"

\* C3: in both path-bearing SAS endpoints a token is generated only after the
\* validation of the path has succeeded for the current user; a validation error
\* ends the request with 422 carrying the validator's message at loc [query, path]
\* and no token; the directory and file of a returned URL, joined, are the
\* validated path.
C3_SignOnlyValidated ==
    req.op \in {"generate_run_data_shared_access_signature",
                "generate_project_documents_shared_access_signature"} =>
        LET validated == PathStr(req.path)
            error == IF req.op = "generate_run_data_shared_access_signature"
                     THEN validate_run_data_file_path(validated, req.user)
                     ELSE validate_project_document_file_path(validated, req.user)
        IN  /\ error.raised = "IncorrectDataFilePath" =>
                /\ resp.status = 422
                /\ resp.detail = <<[loc |-> <<"query", "path">>, msg |-> error.message]>>
                /\ signed = <<>>
            /\ signed # <<>> => resp.status = 200
            /\ resp.status = 200 =>
                /\ error = Ok
                /\ Len(signed) = 1
                /\ signed[1].directory_name \o <<SLASH>> \o signed[1].file_name = validated

C3_Witness ==
    /\ req.op = "generate_project_documents_shared_access_signature"
    /\ resp.status = 200
    /\ signed # <<>>
    /\ ~req.user.is_admin

\* the permission table of the specification (4.4)
PermissionTable(op, is_admin) ==
    CASE op = "generate_run_data_shared_access_signature" /\ ~is_admin ->
             [read |-> TRUE, write |-> FALSE, create |-> FALSE, delete |-> FALSE]
      [] op = "generate_run_data_shared_access_signature" /\ is_admin ->
             [read |-> TRUE, write |-> TRUE, create |-> TRUE, delete |-> TRUE]
      [] op = "generate_project_documents_upload_shared_access_signature" ->
             [read |-> FALSE, write |-> TRUE, create |-> TRUE, delete |-> FALSE]
      [] op = "generate_project_documents_shared_access_signature" ->
             [read |-> TRUE, write |-> FALSE, create |-> FALSE, delete |-> TRUE]

\* C4: the permissions of an issued token are those of the table for the operation
\* and the role; a run-data token of a regular user never carries write, create or
\* delete.
C4_PermissionTable ==
    signed # <<>> =>
        /\ signed[1].permission = PermissionTable(req.op, req.user.is_admin)
        /\ (req.op = "generate_run_data_shared_access_signature" /\ ~req.user.is_admin) =>
               (~signed[1].permission.write /\ ~signed[1].permission.create
                    /\ ~signed[1].permission.delete)

C4_Witness ==
    /\ req.op = "generate_run_data_shared_access_signature"
    /\ ~req.user.is_admin
    /\ signed # <<>>
    /\ signed[1].permission.read

-----------------------------------------------------------------------------
(* Claims about the recursive listing *)

Range(seq) == {seq[i] : i \in 1..Len(seq)}

ChildPath(dir_path, name) == dir_path \o <<SLASH>> \o name

\* the directory the call lists first
TopDir == trace[1].path

RECURSIVE FilePathsUnder(_)
\* the files of the share at any depth below a directory
FilePathsUnder(dir_path) ==
    IF dir_path \notin DOMAIN share THEN {}
    ELSE UNION {IF e.is_directory THEN FilePathsUnder(ChildPath(dir_path, e.name))
                ELSE {ChildPath(dir_path, e.name)} : e \in Range(share[dir_path])}

\* the directories of the share strictly below a directory
DirsBelow(dir_path) ==
    {d \in DOMAIN share : Len(d) > Len(dir_path) /\ StartsWith(d, dir_path \o <<SLASH>>)}

RECURSIVE PreOrderItems(_, _)
RECURSIVE PreOrder(_)
\* the visit of a directory in the order of the provider's listings: the listing of
\* the directory, then each entry at its place, a subdirectory with all below it
PreOrder(dir_path) ==
    <<Event("list", dir_path)>> \o
    (IF dir_path \in DOMAIN share THEN PreOrderItems(dir_path, share[dir_path]) ELSE <<>>)

PreOrderItems(dir_path, items) ==
    IF items = <<>> THEN <<>>
    ELSE (IF Head(items).is_directory
          THEN PreOrder(ChildPath(dir_path, Head(items).name))
          ELSE <<Event("yield", ChildPath(dir_path, Head(items).name))>>)
         \o PreOrderItems(dir_path, Tail(items))

IsPrefixOf(s, t) == Len(s) <= Len(t) /\ SubSeq(t, 1, Len(s)) = s

IsVisit(e) == e.ev \in {"list", "yield"}

Listing200 ==
    req.op \in {"list_project_documents", "list_run_data"} /\ resp.status = 200

\* C7 (as claimed): when the walker descends into a subdirectory, every direct file
\* entry of the directory holding it has been yielded already.
C7_FilesBeforeDescent ==
    \A i \in 2..Len(trace) :
        trace[i].ev = "list" =>
            LET parent == PathParent(trace[i].path)
            IN  \A e \in Range(share[parent]) :
                    ~e.is_directory =>
                        \E j \in 1..(i - 1) :
                            trace[j] = Event("yield", ChildPath(parent, e.name))

\* C7 (amended): the walker takes the entries of every directory in the order of
\* the provider's listing, yielding a file and going through a subdirectory with all
\* below it at the entry's place in the listing.
C7_ProviderOrder ==
    trace # <<>> =>
        LET visits == SelectSeq(trace, IsVisit)
        IN  /\ IsPrefixOf(visits, PreOrder(TopDir))
            /\ Listing200 => visits = PreOrder(TopDir)

\* a finished listing that went through a subdirectory holding a file before it
\* yielded a file listed after that subdirectory
C7_Witness ==
    /\ Listing200
    /\ \E d \in DOMAIN share :
         \E i \in 1..Len(share[d]), j \in 1..Len(share[d]) :
             /\ i < j
             /\ share[d][i].is_directory
             /\ ~share[d][j].is_directory
             /\ FilePathsUnder(ChildPath(d, share[d][i].name)) # {}
             /\ \E k \in 1..Len(trace) :
                    trace[k] = Event("yield", ChildPath(d, share[d][j].name))

\* C8: in detailed mode every yielded entry, nested ones included, comes from one
\* metadata fetch and has last_modified; in fast mode no metadata fetch is made and
\* every entry has no last_modified and has its path.
C8_UniformMode ==
    /\ req.op = "list_project_documents" =>
           \A i \in 1..Len(walk.out) :
               /\ walk.out[i].last_modified # None
               /\ Cardinality({k \in 1..Len(trace) :
                      trace[k] = Event("get_file_properties", walk.out[i].path)}) = 1
    /\ req.op = "list_run_data" =>
           /\ \A k \in 1..Len(trace) : trace[k].ev # "get_file_properties"
           /\ \A i \in 1..Len(walk.out) :
                  walk.out[i].last_modified = None /\ walk.out[i].path # None

\* C9: a listing whose top-level directory does not exist ends with the not-found
\* error of its call site and 404, never with an empty list; a listing of an
\* existing top-level directory with no file below it returns the empty list.
C9_NotFoundOrEmpty ==
    (walk.pc = "done" /\ trace # <<>>) =>
        /\ TopDir \notin DOMAIN share =>
               /\ resp.status = 404
               /\ req.op = "list_project_documents" => walk.raised = "ProjectDocumentsNotFound"
               /\ req.op = "list_run_data" => walk.raised = "RunDataNotFound"
        /\ (TopDir \in DOMAIN share /\ FilePathsUnder(TopDir) = {}) =>
               resp = [status |-> 200, body |-> <<>>]

C9_Witness ==
    /\ walk.pc = "done"
    /\ req.op = "list_run_data"
    /\ trace # <<>>
    /\ TopDir \notin DOMAIN share
    /\ resp.status = 404

\* C10: a finished listing holds exactly one entry for every file below the
\* top-level directory and none for a directory, whatever the number of
\* directories without files.
C10_OneEntryPerFile ==
    Listing200 =>
        /\ Len(resp.body) = Cardinality(FilePathsUnder(TopDir))
        /\ {resp.body[i].path : i \in 1..Len(resp.body)} = FilePathsUnder(TopDir)

\* a finished listing of two files or more, one of them nested, over a tree that
\* has a directory without files
C10_Witness ==
    /\ Listing200
    /\ Len(resp.body) >= 2
    /\ \E d \in DirsBelow(TopDir) : FilePathsUnder(d) = {}
    /\ \E d \in DirsBelow(TopDir) : FilePathsUnder(d) # {}

-----------------------------------------------------------------------------
(* Specification of the streams *)

\* the sizes read
Sizes == {-1, 0, 2}

\* the seeks made: <<offset, whence>>
Seeks == {<<0, SEEK_SET>>, <<1, SEEK_CUR>>, <<1, SEEK_END>>}

Read == \E self \in Streams, size \in Sizes, outcome \in ProviderOutcomes :
            read(self, size, outcome) /\ UNCHANGED before

Seek == \E self \in Streams, s \in Seeks : seek(self, s[1], s[2]) /\ UNCHANGED before

Tell == \E self \in Streams : tell(self) /\ UNCHANGED before

Drop == \E self \in Streams : Discard(self) /\ UNCHANGED before

Download == \E self \in OtherStreams, n \in DownloadReads :
                OtherDownload(self, n) /\ UNCHANGED before

InitStream ==
    /\ prefix = <<"projects">>
    /\ IdleClock
    /\ req = NoReq
    /\ resp = NoResp
    /\ signed = <<>>
    /\ IdleWalk
    /\ stream = [self \in Streams |-> download_run_file]
    /\ cache = <<>>
    /\ recency = <<>>
    /\ fetches = <<>>
    /\ closed = {}
    /\ ops = 0
    /\ remote = FileLength
    /\ last = NoOp
    /\ before = <<>>
    /\ IdleTasks

NextStream ==
    \/ Read
    \/ Seek
    \/ Tell
    \/ Drop
    \/ Download

SpecStream == InitStream /\ [][NextStream]_vars

-----------------------------------------------------------------------------
(* Claims about the range cache of the streams *)

\* the bytes of the file of streams 1 and 2 in the range of key
RangeBytes(key) == get_file_to_bytes(key[1], key[2], key[3]).value.content

C6_PerInstanceCache ==
    /\ last.evicted = None
    /\ last.hit => last.key[1] = last.self
    /\ \A i \in 1..Len(cache) : cache[i].key[1] \notin closed

-----------------------------------------------------------------------------
(* Claims about the time window of a token *)

\* C20: every token issued has its start at the time of issuance and its expiry
\* exactly 5 minutes after its start, also when the clock advances while the
\* token is built.
C20_FiveMinutes ==
    \A i \in 1..Len(signed) :
        /\ signed[i].start \in {utcnow[1], utcnow[2]}
        /\ signed[i].expiry - signed[i].start = timedelta(5)

-----------------------------------------------------------------------------
(* The directory lifecycle: init_project_directory, init_run_directory,      *)
(* rename_run_directory and their endpoints                                  *)

\* slugify of one chunk: lower case, every run of other characters a hyphen
SlugChunk(c) ==
    CASE c = "My Project" -> "my-project"
      [] c = "my project" -> "my-project"
      [] c = "Hello" -> "hello"
      [] c \in {" ", ".", "|", "/"} -> "-"
      [] OTHER -> c

\* slugify(name), for a name of word chunks
slugify(name) == [i \in 1..Len(name) |-> SlugChunk(name[i])]

\* the directory a path lies in; the root of the share is <<>>
DirParent(path) ==
    LET segs == Split(path)
    IN  IF Len(segs) <= 1 THEN <<>> ELSE Join(SubSeq(segs, 1, Len(segs) - 1))

\* the last segment of a path
DirName(path) == LET segs == Split(path) IN segs[Len(segs)]

\* path is dir or lies below it
Under(path, dir) == path = dir \/ StartsWith(path, dir \o <<SLASH>>)

DirEntry(name) == [name |-> name, is_directory |-> TRUE, size |-> 0]

\* a call made to the provider and how it ended
Call(ev, path, raised) == [ev |-> ev, path |-> path, raised |-> raised]

\* the messages of the provider's errors
ErrorMessage(raised) ==
    CASE raised = "ResourceExistsError" -> <<"The specified resource already exists.">>
      [] raised = "ResourceNotFoundError" -> <<"The specified parent path does not exist.">>
      [] OTHER -> <<raised>>

\* a directory that exists is taken as created
Mut_create_directory(sh, path) ==
    IF path \in DOMAIN sh
    THEN [raised |-> "none", share |-> sh]
    ELSE IF DirParent(path) \notin DOMAIN sh
    THEN [raised |-> "ResourceNotFoundError", share |-> sh]
    ELSE [raised |-> "none",
          share |-> [d \in DOMAIN sh \cup {path} |->
                        IF d = path THEN <<>>
                        ELSE IF d = DirParent(path)
                        THEN Append(sh[d], DirEntry(DirName(path)))
                        ELSE sh[d]]]

\* ShareDirectoryClient.create_directory / create_subdirectory on the share sh
create_directory(sh, path) ==
    IF path \in DOMAIN sh
    THEN [raised |-> "ResourceExistsError", share |-> sh]
    ELSE IF DirParent(path) \notin DOMAIN sh
    THEN [raised |-> "ResourceNotFoundError", share |-> sh]
    ELSE [raised |-> "none",
          share |-> [d \in DOMAIN sh \cup {path} |->
                        IF d = path THEN <<>>
                        ELSE IF d = DirParent(path)
                        THEN Append(sh[d], DirEntry(DirName(path)))
                        ELSE sh[d]]]

\* the listing of a directory without its entry name
WithoutEntry(listing, name) == SelectSeq(listing, LAMBDA e : e.name # name)

\* ShareDirectoryClient.rename_directory(new_name, overwrite=...) of directory src
rename_directory(sh, src, dst, overwrite) ==
    IF src \notin DOMAIN sh
    THEN [raised |-> "ResourceNotFoundError", share |-> sh]
    ELSE IF dst \in DOMAIN sh /\ ~overwrite
    THEN [raised |-> "ResourceExistsError", share |-> sh]
    ELSE IF DirParent(dst) \notin DOMAIN sh \/ Under(dst, src)
    THEN [raised |-> "ResourceNotFoundError", share |-> sh]
    ELSE LET kept == {d \in DOMAIN sh : ~Under(d, src) /\ ~Under(d, dst)}
             moved == {d \in DOMAIN sh : Under(d, src)}
             To(d) == dst \o SubSeq(d, Len(src) + 1, Len(d))
             From(e) == CHOOSE d \in moved : To(d) = e
             unlinked == [d \in kept |->
                             IF d = DirParent(src)
                             THEN WithoutEntry(sh[d], DirName(src)) ELSE sh[d]]
         IN  [raised |-> "none",
              share |-> [d \in kept \cup {To(m) : m \in moved} |->
                            IF d \in kept
                            THEN IF d = DirParent(dst)
                                 THEN Append(WithoutEntry(unlinked[d], DirName(dst)),
                                             DirEntry(DirName(dst)))
                                 ELSE unlinked[d]
                            ELSE sh[From(d)]]]

\* The provider calls of a handler, made one after the other on the share sh until
\* one raises.  fault is the number of the call the service fails to answer
\* (HttpResponseError), 0 when it answers all.
RECURSIVE RunCreates(_, _, _, _)
RunCreates(sh, paths, n, fault) ==
    IF n > Len(paths)
    THEN [share |-> sh, calls |-> <<>>, raised |-> "none"]
    ELSE LET ev == IF n = 1 THEN "create_directory" ELSE "create_subdirectory"
             made == create_directory(sh, paths[n])
         IN  IF fault = n
             THEN [share |-> sh, calls |-> <<Call(ev, paths[n], "HttpResponseError")>>,
                   raised |-> "HttpResponseError"]
             ELSE IF made.raised # "none"
             THEN [share |-> sh, calls |-> <<Call(ev, paths[n], made.raised)>>,
                   raised |-> made.raised]
             ELSE LET rest == RunCreates(made.share, paths, n + 1, fault)
                  IN  [share |-> rest.share,
                       calls |-> <<Call(ev, paths[n], "none")>> \o rest.calls,
                       raised |-> rest.raised]

\* except (ResourceNotFoundError, ResourceExistsError) as error:
\*     raise FolderCreationError(error.message) from error
FolderCreationError(result) ==
    IF result.raised \in {"ResourceNotFoundError", "ResourceExistsError"}
    THEN [result EXCEPT !.raised = "FolderCreationError"]
         @@ [message |-> ErrorMessage(result.raised)]
    ELSE result @@ [message |-> ErrorMessage(result.raised)]

\* the project directory is made from the name as it was given
Mut_init_project_directory(sh, project_name, fault) ==
    LET dir == os_path_join(<<_get_projects_path, project_name>>)
    IN  FolderCreationError(RunCreates(sh,
            <<dir, os_path_join(<<dir, <<"documents">> >>),
                   os_path_join(<<dir, <<"runs">> >>)>>, 1, fault))

\* DataAzureClient.init_project_directory(project_name)
init_project_directory(sh, project_name, fault) ==
    LET dir == os_path_join(<<_get_projects_path, slugify(project_name)>>)
    IN  FolderCreationError(RunCreates(sh,
            <<dir, os_path_join(<<dir, <<"documents">> >>),
                   os_path_join(<<dir, <<"runs">> >>)>>, 1, fault))

\* DataAzureClient.init_run_directory(run_name, project_name)
init_run_directory(sh, run_name, project_name, fault) ==
    LET dir == os_path_join(<<_get_projects_path, slugify(project_name),
                              <<"runs">>, run_name>>)
    IN  FolderCreationError(RunCreates(sh,
            <<dir, os_path_join(<<dir, <<"processed_data">> >>),
                   os_path_join(<<dir, <<"raw_data">> >>)>>, 1, fault))

\* the rename replaces a destination that exists
Mut_rename_run_directory(sh, run_name, project_name, new_name, fault) ==
    LET src == os_path_join(<<_get_projects_path, slugify(project_name),
                              <<"runs">>, run_name>>)
        dst == os_path_join(<<_get_projects_path, slugify(project_name),
                              <<"runs">>, new_name>>)
        renamed == rename_directory(sh, src, dst, TRUE)
        raised == IF fault = 1 THEN "HttpResponseError" ELSE renamed.raised
    IN  FolderCreationError(
            [share |-> IF raised = "none" THEN renamed.share ELSE sh,
             calls |-> <<Call("rename_directory", src, raised) @@
                         [new_name |-> dst, overwrite |-> TRUE]>>,
             raised |-> raised])

\* DataAzureClient.rename_run_directory(run_name, project_name, new_name)
rename_run_directory(sh, run_name, project_name, new_name, fault) ==
    LET src == os_path_join(<<_get_projects_path, slugify(project_name),
                              <<"runs">>, run_name>>)
        dst == os_path_join(<<_get_projects_path, slugify(project_name),
                              <<"runs">>, new_name>>)
        renamed == rename_directory(sh, src, dst, FALSE)
        raised == IF fault = 1 THEN "HttpResponseError" ELSE renamed.raised
    IN  FolderCreationError(
            [share |-> IF raised = "none" THEN renamed.share ELSE sh,
             calls |-> <<Call("rename_directory", src, raised) @@
                         [new_name |-> dst, overwrite |-> FALSE]>>,
             raised |-> raised])

\* the answer of the three endpoints: 204, or 400 with the message of a
\* FolderCreationError; any other error leaves the endpoint as it is
LifecycleResponse(result) ==
    IF result.raised = "none" THEN [status |-> 204]
    ELSE IF result.raised = "FolderCreationError"
    THEN [status |-> 400, detail |-> result.message]
    ELSE [status |-> 500, detail |-> <<result.raised>>]

\* POST /data/{project_name}/init
init_project_data(project_name, fault) ==
    /\ req' = [op |-> "init_project_data", project_name |-> project_name, fault |-> fault]
    /\ LET result == init_project_directory(share, project_name, fault)
       IN  /\ share' = result.share
           /\ trace' = result.calls
           /\ resp' = LifecycleResponse(result)
    /\ UNCHANGED <<prefix, utcnow, signed, walk, done, streamVars, taskVars>>

\* POST /data/{project_name}/runs/{run_name}/init
init_run_data(project_name, run_name, fault) ==
    /\ req' = [op |-> "init_run_data", project_name |-> project_name,
               run_name |-> run_name, fault |-> fault]
    /\ LET result == init_run_directory(share, run_name, project_name, fault)
       IN  /\ share' = result.share
           /\ trace' = result.calls
           /\ resp' = LifecycleResponse(result)
    /\ UNCHANGED <<prefix, utcnow, signed, walk, done, streamVars, taskVars>>

\* POST /data/{project_name}/runs/{run_name}/rename/{new_run_name}
rename_run_folder(project_name, run_name, new_run_name, fault) ==
    /\ req' = [op |-> "rename_run_folder", project_name |-> project_name,
               run_name |-> run_name, new_run_name |-> new_run_name, fault |-> fault]
    /\ LET result == rename_run_directory(share, run_name, project_name,
                                          new_run_name, fault)
       IN  /\ share' = result.share
           /\ trace' = result.calls
           /\ resp' = LifecycleResponse(result)
    /\ UNCHANGED <<prefix, utcnow, signed, walk, done, streamVars, taskVars>>

LifecycleOps == {"init_project_data", "init_run_data", "rename_run_folder"}

\* the response of a directory request has been sent
RespondLifecycle ==
    /\ req.op \in LifecycleOps
    /\ done' = [op |-> req.op, req |-> req, status |-> resp.status, share |-> share]
    /\ req' = NoReq
    /\ resp' = NoResp
    /\ trace' = <<>>
    /\ UNCHANGED <<prefix, utcnow, signed, share, walk, streamVars, taskVars>>

\* the names given to the directory requests
LifeProjects == {<<"My Project">>, <<"my-project">>}
LifeRuns == {<<"world">>, <<"run2">>}

\* the provider call of a request that the service fails to answer, 0 for none
Faults == 0..3

\* the shares the requests start on: an empty share, a share with the directory
\* of the prefix only, a share with an initialised project that has a run with a
\* file of raw data
LifeShares ==
    LET run == DirNode(<<"world">>, <<DirNode(<<"processed_data">>, <<>>),
                                      DirNode(<<"raw_data">>,
                                              <<FileNode(<<"file-1">>, 1)>>)>>)
        project == <<DirNode(<<"my-project">>, <<DirNode(<<"documents">>, <<>>),
                                                 DirNode(<<"runs">>, <<run>>)>>)>>
    IN  IF prefix = <<>>
        THEN {ShareOf(<<>>), ShareOf(project)}
        ELSE {ShareOf(<<>>), ShareOf(<<DirNode(prefix, <<>>)>>),
              ShareOf(<<DirNode(prefix, project)>>)}

POST_init ==
    /\ req = NoReq
    /\ \E project_name \in LifeProjects, fault \in Faults :
           init_project_data(project_name, fault)

POST_runs_init ==
    /\ req = NoReq
    /\ \E project_name \in LifeProjects, run_name \in LifeRuns, fault \in Faults :
           init_run_data(project_name, run_name, fault)

POST_runs_rename ==
    /\ req = NoReq
    /\ \E project_name \in LifeProjects, run_name \in LifeRuns,
          new_run_name \in LifeRuns, fault \in Faults :
           rename_run_folder(project_name, run_name, new_run_name, fault)

\* the listing requests made of the runs of the project
GET_life_run_data ==
    \E project_name \in {slugify(p) : p \in LifeProjects}, run_name \in LifeRuns,
       data_type \in RunDataTypeType :
        list_run_data(project_name, run_name, data_type, admin)

\* the listing requests made of the documents of the project, by the name the
\* project was initialised with
GET_life_documents ==
    \E project_name \in LifeProjects : list_project_documents(project_name, admin)

InitLife ==
    /\ prefix \in {<<"projects">>, <<>>}
    /\ IdleClock
    /\ req = NoReq
    /\ resp = NoResp
    /\ signed = <<>>
    /\ share \in LifeShares
    /\ walk = NoWalk
    /\ trace = <<>>
    /\ done = NoDone
    /\ IdleStream
    /\ IdleTasks

NextLife ==
    \/ POST_init
    \/ POST_runs_init
    \/ POST_runs_rename
    \/ RespondLifecycle
    \/ GET_life_run_data
    \/ GET_life_documents
    \/ WalkList
    \/ WalkEntry
    \/ WalkReturn
    \/ RespondListing

SpecLife == InitLife /\ [][NextLife]_vars

-----------------------------------------------------------------------------
(* Claims about the directory lifecycle                                      *)

\* a directory request has been handled and its response not yet sent
Returned(op) == req # NoReq /\ req.op = op /\ resp # NoResp

\* the directory of the project a request names
ProjectDir(project_name) == os_path_join(<<prefix, slugify(project_name)>>)

\* the directory of a run of the project a request names
RunDir(project_name, run_name) ==
    os_path_join(<<prefix, slugify(project_name), <<"runs">>, run_name>>)

\* the directories the calls of the request created
Created == {trace[i].path : i \in {j \in 1..Len(trace) : trace[j].raised = "none"}}

\* C11: after init_project has returned, with or without an error, the share
\* holds the project directory with both documents and runs or nothing that the
\* call created: the project directory never lacks one of its two children.
C11_AllOrNothing ==
    Returned("init_project_data") =>
        LET dir == ProjectDir(req.project_name)
            all == {dir, os_path_join(<<dir, <<"documents">> >>),
                         os_path_join(<<dir, <<"runs">> >>)}
        IN  /\ Created = {} \/ Created = all
            /\ dir \in DOMAIN share => all \subseteq DOMAIN share

\* C12: after a successful init_run the run directory has a subdirectory for
\* every run data type the listing endpoint accepts: raw_data, processed_data
\* and HDF5.
C12_EveryDataType ==
    Returned("init_run_data") /\ resp.status = 204 =>
        \A data_type \in RunDataTypeType :
            os_path_join(<<RunDir(req.project_name, req.run_name), data_type>>)
                \in DOMAIN share

\* the arguments of a request
Args(r) == [r EXCEPT !.fault = 0]

\* the message a repeated request is refused with
RepeatMessage(op) ==
    IF op = "rename_run_folder" THEN ErrorMessage("ResourceNotFoundError")
    ELSE ErrorMessage("ResourceExistsError")

\* the request handled repeats, with the provider answering, the request that
\* was answered last, and that one succeeded
Repeated ==
    /\ req # NoReq
    /\ req.op \in LifecycleOps
    /\ resp # NoResp
    /\ req.fault = 0
    /\ done # NoDone
    /\ done.status = 204
    /\ Args(done.req) = req

\* C13: a directory request that repeats the successful request before it fails
\* with FolderCreationError, answered 400 with the message of the error (target
\* exists for the two init requests, source missing for the rename), and the
\* tree is as the first request left it.
C13_NotIdempotent ==
    Repeated =>
        /\ resp = [status |-> 400, detail |-> RepeatMessage(req.op)]
        /\ share = done.share

C13_Witness ==
    /\ Repeated
    /\ req.op = "rename_run_folder"
    /\ resp.status = 400

\* the rename request handled in this step, with the provider answering
RenameStep ==
    /\ req = NoReq
    /\ req' # NoReq
    /\ req'.op = "rename_run_folder"
    /\ req'.fault = 0

\* C14: rename_run asks the provider once, to rename <prefix>/<slug>/runs/<run>
\* to <prefix>/<slug>/runs/<new_run> with overwrite disabled; when the destination
\* exists or the source is missing the request fails with FolderCreationError and
\* the share, destination and source with its contents, is as it was.
C14_RenameStep ==
    RenameStep =>
        LET src == RunDir(req'.project_name, req'.run_name)
            dst == RunDir(req'.project_name, req'.new_run_name)
        IN  /\ Len(trace') = 1
            /\ trace'[1].ev = "rename_directory"
            /\ trace'[1].path = src
            /\ trace'[1].new_name = dst
            /\ trace'[1].overwrite = FALSE
            /\ (src \notin DOMAIN share \/ dst \in DOMAIN share) =>
                   /\ resp'.status = 400
                   /\ share' = share

C14_RenameNoOverwrite == [][C14_RenameStep]_vars

\* a rename onto a run that exists has been refused; the source has its file
C14_Witness ==
    /\ Returned("rename_run_folder")
    /\ req.fault = 0
    /\ req.run_name # req.new_run_name
    /\ resp.status = 400
    /\ LET src == RunDir(req.project_name, req.run_name)
           dst == RunDir(req.project_name, req.new_run_name)
       IN  /\ {src, dst} \subseteq DOMAIN share
           /\ Len(share[os_path_join(<<src, <<"raw_data">> >>)]) = 1
           /\ share[os_path_join(<<dst, <<"raw_data">> >>)] = <<>>

\* C15: a successful init_project makes exactly three creations in this order:
\* <prefix>/<slug(name)>, its child documents, its child runs; a step is made
\* only after the step before it succeeded; the project segment is the slug of
\* the name.
C15_ThreeCreationsInOrder ==
    Returned("init_project_data") =>
        LET dir == os_path_join(<<prefix, slugify(req.project_name)>>)
        IN  /\ \A i \in 2..Len(trace) : trace[i - 1].raised = "none"
            /\ resp.status = 204 =>
                   trace = <<Call("create_directory", dir, "none"),
                             Call("create_subdirectory",
                                  os_path_join(<<dir, <<"documents">> >>), "none"),
                             Call("create_subdirectory",
                                  os_path_join(<<dir, <<"runs">> >>), "none")>>

C15_Witness ==
    /\ Returned("init_project_data")
    /\ resp.status = 204
    /\ req.project_name = <<"My Project">>
    /\ prefix = <<"projects">>
    /\ Join(<<prefix, <<"my-project">>, <<"runs">> >>) \in DOMAIN share

-----------------------------------------------------------------------------
(* Specification of the reads of a file *)

\* the sizes read of a file: to the end, and every number of bytes up to its
\* greatest length
FileSizes == -2..FileLength

\* the record of the operations of the streams: those before the last, and all
History == IF last = NoOp THEN <<>> ELSE Append(before, last)

FileRead == \E self \in Streams, size \in FileSizes :
                read(self, size, "ok") /\ before' = History

FileSeek == \E self \in Streams, s \in Seeks :
                seek(self, s[1], s[2]) /\ before' = History

FileTell == \E self \in Streams : tell(self) /\ before' = History

InitFile ==
    /\ prefix = <<"projects">>
    /\ IdleClock
    /\ req = NoReq
    /\ resp = NoResp
    /\ signed = <<>>
    /\ IdleWalk
    /\ stream = [self \in Streams |-> download_run_file]
    /\ cache = <<>>
    /\ recency = <<>>
    /\ fetches = <<>>
    /\ closed = {}
    /\ ops = 0
    /\ remote \in 0..FileLength
    /\ last = NoOp
    /\ before = <<>>
    /\ IdleTasks

NextFile ==
    \/ FileRead
    \/ FileSeek
    \/ FileTell

SpecFile == InitFile /\ [][NextFile]_vars

-----------------------------------------------------------------------------
(* Claims about the reads of a file *)

\* a read of size bytes of stream self is made in this step
ReadStep(self, size) ==
    /\ ops' = ops + 1
    /\ last'.op = "read"
    /\ last'.self = self
    /\ last'.size = size

\* the bytes of the file from position from up to, not including, position to
FileBytes(from, to) ==
    LET stop == IF to < remote THEN to ELSE remote
    IN  [i \in 1..(stop - from) |-> ByteAt(1, from + i - 1)]

\* C16: a read of size > 0 at offset o that the provider answers requests the
\* bytes from o to o + size - 1 inclusive, returns those of them the file has,
\* and leaves the offset at o + size, however few bytes came back.
C16_ReadStep ==
    \A self \in Streams, size \in 1..(FileLength + 1) :
        ReadStep(self, size) /\ last'.raised = "none" =>
            LET o == stream[self]._offset
            IN  /\ last'.key = <<self, o, Some(o + size - 1)>>
                /\ last'.content = FileBytes(o, o + size)
                /\ stream'[self]._offset = o + size

C16_ReadAdvancesBySize == [][C16_ReadStep]_vars

\* a read that passed the end of the file: fewer bytes than asked, and the
\* offset beyond the length of the file
C16_Witness ==
    /\ last.op = "read"
    /\ last.size > 0
    /\ last.raised = "none"
    /\ Len(last.content) < last.size
    /\ Len(last.content) > 0
    /\ stream[last.self]._offset > remote

\* C17: a read of negative size at any offset o returns the bytes from o to the
\* end of the file and leaves the offset at the length of the file, also when
\* o > 0.
C17_ReadToEndOffset ==
    (last.op = "read" /\ last.size < 0 /\ last.raised = "none") =>
        /\ last.key[3] = None
        /\ last.content = FileBytes(last.key[2], remote)
        /\ stream[last.self]._offset = remote

\* the operations stream self has made
OpsOf(self) == SelectSeq(History, LAMBDA o : o.self = self)

\* stream a has read the file in two reads of k and remote - k bytes and
\* stream b in one read to the end, both from offset 0 and nothing else
SplitAndWhole(a, b, k) ==
    /\ Len(OpsOf(a)) = 2
    /\ Len(OpsOf(b)) = 1
    /\ \A i \in 1..2 : OpsOf(a)[i].op = "read"
    /\ OpsOf(a)[1].size = k
    /\ OpsOf(a)[2].size = remote - k
    /\ OpsOf(b)[1].op = "read"
    /\ OpsOf(b)[1].size = -1

\* C18: for a file of length L and every k in 0..L, from offset 0 the results
\* of read(k) and read(L - k) together are the result of one read(-1) from
\* offset 0, and the offset is L after both.
C18_SplitRead ==
    \A a \in Streams, b \in Streams, k \in 0..remote :
        a # b /\ SplitAndWhole(a, b, k) =>
            /\ \A o \in {OpsOf(a)[1], OpsOf(a)[2], OpsOf(b)[1]} : o.raised = "none"
            /\ OpsOf(a)[1].content \o OpsOf(a)[2].content = OpsOf(b)[1].content
            /\ stream[a]._offset = remote
            /\ stream[b]._offset = remote

\* C19: read(0) returns no byte, makes no call to the provider, neither for a
\* range nor for the properties of the file, and leaves the offset and the
\* cache of ranges as they are, in every state of the stream.
C19_ReadZeroStep ==
    \A self \in Streams :
        ReadStep(self, 0) =>
            /\ last'.content = <<>>
            /\ last'.raised = "none"
            /\ last'.calls = <<>>
            /\ stream' = stream
            /\ cache' = cache
            /\ recency' = recency
            /\ fetches' = fetches

C19_ReadZero == [][C19_ReadZeroStep]_vars

\* a read of no byte made after a read to the end, away from offset 0
C19_Witness ==
    /\ last.op = "read"
    /\ last.size = 0
    /\ last.calls = <<>>
    /\ stream[last.self]._offset > 0
    /\ stream[last.self]._content_length # None
    /\ \E i \in 1..Len(cache) : cache[i].key[1] = last.self

-----------------------------------------------------------------------------
(* Claims about the URL of a token *)

\* https://{account}.file.core.windows.net/{share}/{directory}/{file}?{params}
SasUrlFormat(account, share_, directory, file, params) ==
    <<"https://">> \o account \o <<".file.core.windows.net/">> \o share_
        \o <<SLASH>> \o directory \o <<SLASH>> \o file \o <<"?">> \o params

\* C21: the URL a SAS operation returns is
\* https://{account}.file.core.windows.net/{share}/{directory}/{file}?{params}
\* with the share, directory and file that were handed to the signing call of
\* the same request, and no URL is returned without a signing call.
C21_UrlNamesSignedFile ==
    /\ "url" \in DOMAIN resp =>
           /\ resp.status = 200
           /\ Len(signed) = 1
           /\ resp.url = SasUrlFormat(storage_account_name, signed[1].share_name,
                                      signed[1].directory_name, signed[1].file_name,
                                      sas_params)
    /\ signed # <<>> => "url" \in DOMAIN resp

\* an upload URL and a run data URL have been returned
C21_Witness ==
    /\ req.op = "generate_project_documents_upload_shared_access_signature"
    /\ resp.status = 200
    /\ signed # <<>>
    /\ signed[1].directory_name = os_path_join(<<prefix, req.project_name, <<"documents">> >>)
    /\ resp.url = SasUrlFormat(storage_account_name, share_name,
                               signed[1].directory_name, req.file_name, sas_params)

-----------------------------------------------------------------------------
(* The deployment of a virtual machine (clients/azure/vm.py) *)

\* PROJECT_TYPE_VM_SIZE
PROJECT_TYPE_VM_SIZE(vm_size) ==
    IF vm_size = None THEN "Standard_B8ms" ELSE "Standard_B20ms"

\* the versions of the template specs, each a list of numbers ("1.9" is <<1, 9>>)
TemplateVersions == {<<1, 2>>, <<1, 9>>, <<1, 10>>}

\* key=lambda s: [int(u) for u in s.split(".")]: the order of lists of numbers
VersionLess(a, b) == a[1] < b[1] \/ (a[1] = b[1] /\ a[2] < b[2])

\* VMAzureClient._get_template_specs(template_name, version): the main template of
\* the version given, of the latest version when none is given
_get_template_specs(template_name, version) ==
    LET latest == CHOOSE v \in TemplateVersions :
                      \A w \in TemplateVersions \ {v} : VersionLess(w, v)
    IN  [template_spec_name |-> template_name,
         template_spec_version |-> IF version = None THEN latest ELSE version[1]]

\* the number of deployments begun in the resource group
MaxBegun == 3

\* the deployment is begun whether or not one of its name exists
Mut_deploy_vm(project_name, vm_size, spec_version, outcome) ==
    LET name == slugify(project_name)
        exists == name \in vm.deployments
        check == [ev |-> "check_existence", deployment_name |-> name, result |-> exists]
        template == _get_template_specs(<<"template-specs">>, spec_version)
        poller == [deployment_name |-> name, n |-> vm.begun + 1]
        begin == [ev |-> "begin_create_or_update", deployment_name |-> name,
                  template |-> template, vmName |-> name,
                  fileShareProjectFolder |-> name,
                  vmSize |-> PROJECT_TYPE_VM_SIZE(vm_size),
                  mode |-> "Incremental", result |-> poller]
    IN  /\ vm.begun < MaxBegun
        /\ IF outcome # "ok"
           THEN vm' = [vm EXCEPT !.op = "deploy_vm", !.project_name = project_name,
                                 !.calls = <<check, [ev |-> "template_specs.get"]>>,
                                 !.raised = outcome, !.returned = None]
           ELSE vm' = [vm EXCEPT !.op = "deploy_vm", !.project_name = project_name,
                                 !.calls = <<check, begin>>,
                                 !.raised = "none",
                                 !.deployments = @ \cup {name},
                                 !.begun = @ + 1,
                                 !.returned = <<[project_name |-> project_name,
                                                 vm_size |-> vm_size,
                                                 deployment_process |-> poller]>>]
        /\ UNCHANGED <<pathVars, walkVars, streamVars, procs>>

\* VMAzureClient.deploy_vm(project_name, vm_size, spec_version); outcome is that
\* of the request for the template specs
deploy_vm(project_name, vm_size, spec_version, outcome) ==
    LET name == slugify(project_name)
        exists == name \in vm.deployments
        check == [ev |-> "check_existence", deployment_name |-> name, result |-> exists]
        template == _get_template_specs(<<"template-specs">>, spec_version)
        poller == [deployment_name |-> name, n |-> vm.begun + 1]
        begin == [ev |-> "begin_create_or_update", deployment_name |-> name,
                  template |-> template, vmName |-> name,
                  fileShareProjectFolder |-> name,
                  vmSize |-> PROJECT_TYPE_VM_SIZE(vm_size),
                  mode |-> "Incremental", result |-> poller]
    IN  /\ vm.begun < MaxBegun
        /\ IF exists
           THEN vm' = [vm EXCEPT !.op = "deploy_vm", !.project_name = project_name,
                                 !.calls = <<check>>,
                                 !.raised = "none", !.returned = None]
           ELSE IF outcome # "ok"
           THEN vm' = [vm EXCEPT !.op = "deploy_vm", !.project_name = project_name,
                                 !.calls = <<check, [ev |-> "template_specs.get"]>>,
                                 !.raised = outcome, !.returned = None]
           ELSE vm' = [vm EXCEPT !.op = "deploy_vm", !.project_name = project_name,
                                 !.calls = <<check, begin>>,
                                 !.raised = "none",
                                 !.deployments = @ \cup {name},
                                 !.begun = @ + 1,
                                 !.returned = <<[project_name |-> project_name,
                                                 vm_size |-> vm_size,
                                                 deployment_process |-> poller]>>]
        /\ UNCHANGED <<pathVars, walkVars, streamVars, procs>>

\* VMAzureClient.delete_deployment(project_name), as create_vm calls it when the
\* machine is deployed
delete_deployment(project_name) ==
    /\ vm' = [vm EXCEPT !.op = "delete_deployment", !.project_name = project_name,
                        !.calls = <<[ev |-> "begin_delete",
                                     deployment_name |-> slugify(project_name)]>>,
                        !.raised = "none", !.returned = None,
                        !.deployments = @ \ {slugify(project_name)}]
    /\ UNCHANGED <<pathVars, walkVars, streamVars, procs>>

\* the projects machines are deployed for, sizes and versions asked
VMProjects == {<<"My Project">>, <<"my-project">>, <<"hello">>}
VMSizes == {None, <<"IMAGERY">>}
SpecVersions == {None} \cup {<<v>> : v \in TemplateVersions}

DeployVM ==
    \E project_name \in VMProjects, vm_size \in VMSizes,
       spec_version \in SpecVersions, outcome \in {"ok", "ResourceNotFoundError"} :
        deploy_vm(project_name, vm_size, spec_version, outcome)

DeleteDeployment ==
    \E project_name \in VMProjects : delete_deployment(project_name)

InitVM ==
    /\ prefix = <<"projects">>
    /\ IdleClock
    /\ req = NoReq
    /\ resp = NoResp
    /\ signed = <<>>
    /\ IdleWalk
    /\ IdleStream
    /\ procs = <<>>
    /\ \E existing \in SUBSET {slugify(p) : p \in VMProjects} :
           vm = [op |-> "none", project_name |-> <<>>, calls |-> <<>>,
                 raised |-> "none", returned |-> None,
                 deployments |-> existing, begun |-> 0]

NextVM ==
    \/ DeployVM
    \/ DeleteDeployment

SpecVM == InitVM /\ [][NextVM]_vars

\* the calls of the deploy_vm call made last that begin a deployment
Begun == SelectSeq(vm.calls, LAMBDA c : c.ev = "begin_create_or_update")

-----------------------------------------------------------------------------
(* Directory requests handled at the same time: each creation of             *)
(* init_project_directory and init_run_directory is one call to the provider, *)
(* and calls of different requests interleave                                *)

\* the requests handled at the same time; 0 stands for any other actor that
\* writes to the share
Callers == {1, 2}
OtherActor == 0

NoProc ==
    [op |-> "none", project_name |-> <<>>, run_name |-> <<>>, pc |-> 0,
     raised |-> "none", message |-> <<>>, calls |-> <<>>]

\* the directories a request creates, in the order of its calls
CreationSteps(p) ==
    LET dir == IF p.op = "init_project_directory"
               THEN os_path_join(<<_get_projects_path, slugify(p.project_name)>>)
               ELSE os_path_join(<<_get_projects_path, slugify(p.project_name),
                                   <<"runs">>, p.run_name>>)
        children == IF p.op = "init_project_directory"
                    THEN <<"documents", "runs">>
                    ELSE <<"processed_data", "raw_data">>
    IN  <<dir, os_path_join(<<dir, <<children[1]>> >>),
               os_path_join(<<dir, <<children[2]>> >>)>>

\* the request of caller c enters init_project_directory / init_run_directory
BeginCreation(c, op, project_name, run_name) ==
    /\ procs[c].op = "none"
    /\ procs' = [procs EXCEPT ![c] = [NoProc EXCEPT !.op = op,
                                                    !.project_name = project_name,
                                                    !.run_name = run_name,
                                                    !.pc = 1]]
    /\ UNCHANGED <<pathVars, walkVars, streamVars, vm>>

\* what was created is removed when a later creation fails
Mut_CreationStep(c) ==
    LET p == procs[c]
        path == CreationSteps(p)[p.pc]
        ev == IF p.pc = 1 THEN "create_directory" ELSE "create_subdirectory"
        made == create_directory(share, path)
        dir == CreationSteps(p)[1]
    IN  /\ p.op # "none"
        /\ p.pc \in 1..3
        /\ IF made.raised # "none"
           THEN /\ procs' = [procs EXCEPT
                                ![c].raised = "FolderCreationError",
                                ![c].message = ErrorMessage(made.raised),
                                ![c].calls = Append(@, Call(ev, path, made.raised)),
                                ![c].pc = 4]
                /\ share' = IF p.pc = 1 THEN share
                            ELSE [d \in {e \in DOMAIN share : ~Under(e, dir)} |->
                                     IF d = DirParent(dir)
                                     THEN WithoutEntry(share[d], DirName(dir))
                                     ELSE share[d]]
           ELSE /\ procs' = [procs EXCEPT
                                ![c].calls = Append(@, Call(ev, path, "none")),
                                ![c].pc = @ + 1]
                /\ share' = made.share
        /\ UNCHANGED <<pathVars, walk, trace, done, streamVars, vm>>

\* the next call of the try block of caller c: create_directory, then the two
\* create_subdirectory; an error of the provider ends the block with
\* FolderCreationError(error.message)
CreationStep(c) ==
    LET p == procs[c]
        path == CreationSteps(p)[p.pc]
        ev == IF p.pc = 1 THEN "create_directory" ELSE "create_subdirectory"
        made == create_directory(share, path)
    IN  /\ p.op # "none"
        /\ p.pc \in 1..3
        /\ IF made.raised # "none"
           THEN /\ procs' = [procs EXCEPT
                                ![c].raised = "FolderCreationError",
                                ![c].message = ErrorMessage(made.raised),
                                ![c].calls = Append(@, Call(ev, path, made.raised)),
                                ![c].pc = 4]
                /\ share' = share
           ELSE /\ procs' = [procs EXCEPT
                                ![c].calls = Append(@, Call(ev, path, "none")),
                                ![c].pc = @ + 1]
                /\ share' = made.share
        /\ UNCHANGED <<pathVars, walk, trace, done, streamVars, vm>>

\* the directories another actor may create while requests are handled
OtherPaths ==
    {os_path_join(<<_get_projects_path, <<"my-project">>, <<child>> >>) :
        child \in {"documents", "runs"}}

\* another actor creates a directory on the share
OtherCreates(path) ==
    LET made == create_directory(share, path)
    IN  /\ made.raised = "none"
        /\ share' = made.share
        /\ procs' = [procs EXCEPT ![OtherActor].calls =
                        Append(@, Call("create_directory", path, "none"))]
        /\ UNCHANGED <<pathVars, walk, trace, done, streamVars, vm>>

Begin ==
    \E c \in Callers, op \in {"init_project_directory", "init_run_directory"},
       project_name \in LifeProjects, run_name \in LifeRuns :
        /\ op = "init_project_directory" => run_name = <<"world">>
        /\ BeginCreation(c, op, project_name,
                         IF op = "init_project_directory" THEN <<>> ELSE run_name)

Step == \E c \in Callers : CreationStep(c)

Other == \E path \in OtherPaths : OtherCreates(path)

InitRace ==
    /\ prefix \in {<<"projects">>, <<>>}
    /\ IdleClock
    /\ req = NoReq
    /\ resp = NoResp
    /\ signed = <<>>
    /\ share \in LifeShares
    /\ walk = NoWalk
    /\ trace = <<>>
    /\ done = NoDone
    /\ IdleStream
    /\ vm = NoVM
    /\ procs = [c \in Callers \cup {OtherActor} |->
                   IF c = OtherActor THEN NoProc @@ [start |-> share] ELSE NoProc]

NextRace ==
    \/ Begin
    \/ Step
    \/ Other

SpecRace == InitRace /\ [][NextRace]_vars

-----------------------------------------------------------------------------
(* Claims about failing and concurrent creations *)

\* the directories the calls of a request created
CreatedBy(p) == {p.calls[i].path : i \in {j \in 1..Len(p.calls) : p.calls[j].raised = "none"}}

\* C23: when a creation of init_project or init_run fails because the target
\* exists or a parent is missing, the request raises FolderCreationError with the
\* message of the provider, makes none of the creations that remain and removes
\* nothing: what its earlier creations made stays on the share.
C23_FailStep ==
    \A c \in Callers :
        procs'[c].raised # "none" =>
            LET calls == procs'[c].calls
                n == Len(calls)
            IN  /\ n >= 1
                /\ calls[n].raised \in {"ResourceExistsError", "ResourceNotFoundError"}
                /\ \A i \in 1..(n - 1) : calls[i].raised = "none"
                /\ \A i \in 1..n : calls[i].ev \in {"create_directory", "create_subdirectory"}
                /\ procs'[c].raised = "FolderCreationError"
                /\ procs'[c].message = ErrorMessage(calls[n].raised)
                /\ CreatedBy(procs'[c]) \subseteq DOMAIN share'
                /\ procs[c].raised = "none" => share' = share
                /\ procs[c].raised # "none" => procs'[c] = procs[c]

C23_NoRollback == [][C23_FailStep]_vars

\* a request has failed at its second creation; the directory of its first is there
C23_Witness ==
    \E c \in Callers :
        /\ procs[c].raised = "FolderCreationError"
        /\ Len(procs[c].calls) = 2
        /\ procs[c].calls[2].raised = "ResourceExistsError"
        /\ procs[c].calls[1].path \in DOMAIN share
        /\ procs[c].calls[2].path \in DOMAIN share

\* two init_project requests for names of one slug have ended; no other actor
\* wrote, and at the start the project directory was missing and its parent there
TwoInitsEnded ==
    /\ \A c \in Callers :
           /\ procs[c].op = "init_project_directory"
           /\ procs[c].pc = 4
    /\ slugify(procs[1].project_name) = slugify(procs[2].project_name)
    /\ procs[OtherActor].calls = <<>>
    /\ ProjectDir(procs[1].project_name) \notin DOMAIN procs[OtherActor].start
    /\ DirParent(ProjectDir(procs[1].project_name)) \in DOMAIN procs[OtherActor].start

\* C28: of two init_project calls for names of one slug made at the same time,
\* in every interleaving of their provider calls, exactly one succeeds, the other
\* raises FolderCreationError at its first creation and creates nothing, and the
\* tree has the project directory with documents and runs.
C28_OneWinner ==
    TwoInitsEnded =>
        \E w \in Callers :
            LET l == CHOOSE c \in Callers : c # w
                dir == ProjectDir(procs[w].project_name)
            IN  /\ procs[w].raised = "none"
                /\ Len(procs[w].calls) = 3
                /\ procs[l].raised = "FolderCreationError"
                /\ Len(procs[l].calls) = 1
                /\ procs[l].calls[1].raised = "ResourceExistsError"
                /\ CreatedBy(procs[l]) = {}
                /\ {dir, os_path_join(<<dir, <<"documents">> >>),
                         os_path_join(<<dir, <<"runs">> >>)} \subseteq DOMAIN share

C28_Witness ==
    /\ TwoInitsEnded
    /\ procs[1].project_name # procs[2].project_name
    /\ procs[2].raised = "none"
    /\ prefix = <<"projects">>

-----------------------------------------------------------------------------
(* Specification of the streams over a file that another actor rewrites, with *)
(* a provider that may fail a ranged fetch                                    *)

\* the sizes read
MetaSizes == {-1, 2}

\* the lengths the file is given by the actor that rewrites it
Lengths == {FileLength - 1, FileLength}

MetaRead == \E self \in Streams, size \in MetaSizes, outcome \in ProviderOutcomes :
                read(self, size, outcome) /\ before' = History

MetaSeek == \E self \in Streams, s \in Seeks :
                seek(self, s[1], s[2]) /\ before' = History

MetaTell == \E self \in Streams : tell(self) /\ before' = History

\* another actor replaces the file by one of another length
Resize ==
    /\ remote' \in Lengths \ {remote}
    /\ UNCHANGED <<pathVars, walkVars, taskVars>>
    /\ UNCHANGED <<stream, cache, recency, fetches, closed, ops, last, before>>

InitMeta ==
    /\ prefix = <<"projects">>
    /\ IdleClock
    /\ req = NoReq
    /\ resp = NoResp
    /\ signed = <<>>
    /\ IdleWalk
    /\ IdleTasks
    /\ stream = [self \in Streams |-> download_run_file]
    /\ cache = <<>>
    /\ recency = <<>>
    /\ fetches = <<>>
    /\ closed = {}
    /\ ops = 0
    /\ remote = FileLength
    /\ last = NoOp
    /\ before = <<>>

NextMeta ==
    \/ MetaRead
    \/ MetaSeek
    \/ MetaTell
    \/ Resize

SpecMeta == InitMeta /\ [][NextMeta]_vars

-----------------------------------------------------------------------------
(* Claims about seek, the length of the file and failing fetches *)

\* an operation op of stream self is made in this step
OpStep(self, op) ==
    /\ ops' = ops + 1
    /\ last'.op = op
    /\ last'.self = self

\* C24: seek returns the new offset, which tell then reports: from the start o,
\* from the current offset the offset before plus o, from the end the content
\* length less o.  The first two make no provider call; a seek from the end
\* fetches the properties of the file only when the length is not yet kept.
C24_SeekStep ==
    \A self \in Streams :
        /\ OpStep(self, "seek") =>
               LET o == last'.size
                   kept == stream[self]._content_length
               IN  /\ last'.returned = stream'[self]._offset
                   /\ last'.whence = SEEK_SET =>
                          last'.returned = o /\ last'.calls = <<>>
                   /\ last'.whence = SEEK_CUR =>
                          last'.returned = stream[self]._offset + o /\ last'.calls = <<>>
                   /\ (last'.whence = SEEK_END /\ kept = None) =>
                          /\ last'.returned = remote - o
                          /\ last'.calls = <<"get_file_properties">>
                   /\ (last'.whence = SEEK_END /\ kept # None) =>
                          last'.returned = kept[1] - o /\ last'.calls = <<>>
        /\ OpStep(self, "tell") =>
               /\ last'.returned = stream[self]._offset
               /\ last'.calls = <<>>
               /\ stream' = stream

C24_SeekReturnsOffset == [][C24_SeekStep]_vars

\* tell after a seek from the end that found the length kept
C24_Witness ==
    /\ last.op = "tell"
    /\ before # <<>>
    /\ before[Len(before)].op = "seek"
    /\ before[Len(before)].self = last.self
    /\ before[Len(before)].whence = SEEK_END
    /\ before[Len(before)].calls = <<>>
    /\ last.returned = before[Len(before)].returned

\* the fetches of the properties of the file that stream self made, in h
PropertyFetches(h, self) ==
    SelectSeq(h, LAMBDA o : o.self = self /\ o.calls = <<"get_file_properties">>)

\* C25: a stream fetches the properties of the file at most once over any
\* sequence of read, seek and tell; the length that fetch gave is the one every
\* later seek from the end uses, also when the file has another length by then.
C25_LengthStep ==
    \A self \in Streams :
        /\ ops' = ops + 1 => Len(PropertyFetches(Append(History, last'), self)) <= 1
        /\ stream[self]._content_length # None =>
               stream'[self]._content_length = stream[self]._content_length
        /\ (OpStep(self, "seek") /\ last'.whence = SEEK_END
                /\ stream[self]._content_length # None) =>
               /\ last'.calls = <<>>
               /\ last'.returned = stream[self]._content_length[1] - last'.size

C25_LengthFetchedOnce == [][C25_LengthStep]_vars

\* a seek from the end made with the length kept after the file got another
C25_Witness ==
    /\ last.op = "seek"
    /\ last.whence = SEEK_END
    /\ last.calls = <<>>
    /\ stream[last.self]._content_length # <<remote>>
    /\ Len(PropertyFetches(History, last.self)) = 1

\* the read of key made last in h raised
FailedBefore(h, key) ==
    /\ \E i \in 1..Len(h) : h[i].op = "read" /\ h[i].key = key
    /\ LET i == CHOOSE n \in 1..Len(h) :
                    /\ h[n].op = "read" /\ h[n].key = key
                    /\ \A m \in (n + 1)..Len(h) : ~(h[m].op = "read" /\ h[m].key = key)
       IN  h[i].raised # "none"

\* C29: when the ranged fetch of a read raises, the error of the provider comes
\* out of read as it is, the offset is unchanged and nothing is kept of the
\* failure: a later read at the same offset and size fetches again and, when
\* that succeeds, returns the bytes and advances the offset.
C29_ReadStep ==
    \A self \in Streams, size \in MetaSizes :
        ReadStep(self, size) =>
            /\ last'.raised # "none" =>
                   /\ last'.raised = "AzureException"
                   /\ last'.calls = <<"get_file_to_bytes">>
                   /\ stream' = stream
                   /\ cache' = cache
            /\ FailedBefore(History, last'.key) =>
                   /\ last'.calls = <<"get_file_to_bytes">>
                   /\ ~last'.hit
                   /\ last'.raised = "none" =>
                          /\ last'.content # <<>>
                          /\ last'.content =
                                 [i \in 1..Len(last'.content) |->
                                     ByteAt(self, stream[self]._offset + i - 1)]
                          /\ size > 0 => stream'[self]._offset = stream[self]._offset + size

C29_FailureNotKept == [][C29_ReadStep]_vars

\* a read that succeeded after the same read had failed
C29_Witness ==
    /\ last.op = "read"
    /\ last.raised = "none"
    /\ last.size > 0
    /\ FailedBefore(before, last.key)
    /\ stream[last.self]._offset = last.key[2] + last.size
    /\ Len(last.content) = last.size

-----------------------------------------------------------------------------
(* Specification of the listing of a share that another actor removes        *)
(* entries from while it is walked                                           *)

RemovalForests == UNION {ForestsOfSize(n) : n \in 2..3}

\* another actor removes the directory path and what it holds
RemoveDirectory(path) ==
    /\ walk.pc = "run"
    /\ path \in DOMAIN share
    /\ path # <<>>
    /\ share' = [d \in {e \in DOMAIN share : ~Under(e, path)} |->
                    IF d = DirParent(path)
                    THEN WithoutEntry(share[d], DirName(path)) ELSE share[d]]
    /\ UNCHANGED <<pathVars, walk, trace, done, streamVars, taskVars>>

\* another actor removes the file name of the directory dir_path
RemoveFile(dir_path, name) ==
    /\ walk.pc = "run"
    /\ dir_path \in DOMAIN share
    /\ \E i \in 1..Len(share[dir_path]) :
           share[dir_path][i].name = name /\ ~share[dir_path][i].is_directory
    /\ share' = [share EXCEPT ![dir_path] = WithoutEntry(@, name)]
    /\ UNCHANGED <<pathVars, walk, trace, done, streamVars, taskVars>>

Remove ==
    \/ \E path \in DOMAIN share : RemoveDirectory(path)
    \/ \E dir_path \in DOMAIN share :
           \E i \in 1..Len(share[dir_path]) : RemoveFile(dir_path, share[dir_path][i].name)

GET_removal_documents == list_project_documents(<<"hello">>, admin)

GET_removal_run_data == list_run_data(<<"hello">>, <<"world">>, <<"raw_data">>, admin)

InitRemoval ==
    /\ prefix = <<"projects">>
    /\ IdleClock
    /\ req = NoReq
    /\ resp = NoResp
    /\ signed = <<>>
    /\ \E forest \in RemovalForests : share = ShareOf(SkeletonOf(Named(forest)))
    /\ walk = NoWalk
    /\ trace = <<>>
    /\ done = NoDone
    /\ IdleStream
    /\ IdleTasks

NextRemoval ==
    \/ GET_removal_documents
    \/ GET_removal_run_data
    \/ WalkList
    \/ WalkEntry
    \/ WalkReturn
    \/ RespondListing
    \/ Remove

SpecRemoval == InitRemoval /\ [][NextRemoval]_vars

\* the directory the listing request walks
WalkedDir ==
    IF req.op = "list_project_documents"
    THEN os_path_join(<<prefix, req.project_name, <<"documents">> >>)
    ELSE os_path_join(<<prefix, req.project_name, <<"runs">>, req.run_name,
                        req.data_type>>)

\* the provider call the walk makes next is answered not found
NextCallNotFound ==
    /\ walk.pc = "run"
    /\ LET top == walk.stack[Len(walk.stack)]
       IN  \/ ~top.listed /\ top.dir_path \notin DOMAIN share
           \/ /\ top.listed
              /\ top.i <= Len(top.items)
              /\ ~NextEntry(top).is_directory
              /\ top.fetch_detailed_information
              /\ get_file_properties(top.dir_path, NextEntry(top).name).raised # "none"

\* C27: a not-found of any provider call of the walk, of the listing of a nested
\* directory or of the properties of a file as well as of the listing of the top
\* directory, ends get_project_documents / get_run_files with the not-found error
\* of the call site, and nothing of what was listed so far is returned.
C27_NotFoundStep ==
    (NextCallNotFound /\ walk' # walk) =>
        /\ walk'.pc = "done"
        /\ walk'.raised = NotFoundOf(req.op)
        /\ walk'.raised \in {"ProjectDocumentsNotFound", "RunDataNotFound"}
        /\ resp' = ListingError(req.op, NotFoundOf(req.op))
        /\ resp'.status = 404
        /\ "body" \notin DOMAIN resp'

C27_NestedNotFound == [][C27_NotFoundStep]_vars

\* the walk ended not found at a directory below the one asked for, which is
\* there, after files had been listed
C27_Witness ==
    /\ walk.pc = "done"
    /\ resp.status = 404
    /\ WalkedDir \in DOMAIN share
    /\ walk.out # <<>>
    /\ trace[Len(trace)].ev = "list"
    /\ trace[Len(trace)].path # WalkedDir
    /\ trace[Len(trace)].path \notin DOMAIN share

-----------------------------------------------------------------------------
(* Claims about the agreement of the operations on paths *)

\* C26: for every configured prefix, the empty one included, every file path
\* that get_run_files returns in fast mode is accepted by
\* validate_run_data_file_path for a user who is a member of the project.
C26_ListedPathsValidate ==
    (req.op = "list_run_data" /\ resp.status = 200
         /\ verify_project_membership(req.project_name, req.user)) =>
        \A i \in 1..Len(resp.body) :
            validate_run_data_file_path(PathStr(resp.body[i].path), req.user) = Ok

\* C30: every operation resolves a project name to the same directory: after
\* init_project_directory(p) succeeded, get_project_documents(p) returns the empty
\* list, not ProjectDocumentsNotFound, and the upload token for p signs a file of
\* the documents directory that init_project_directory(p) created.
C30_SameDirectory ==
    (req.op = "list_project_documents" /\ walk.pc = "done"
         /\ done.op = "init_project_data" /\ done.status = 204
         /\ done.req.project_name = req.project_name) =>
        /\ resp.status = 200
        /\ resp.body = <<>>
        /\ generate_project_documents_upload_sas_url(req.project_name,
                                                     <<"f", ".", "txt">>).call.directory_name
               = os_path_join(<<ProjectDir(req.project_name), <<"documents">> >>)

====
